---- MODULE Spec2Model ----
(***************************************************************************)
(* Model of the ASL spaced-repetition trainer's core (utils/srs.js): the   *)
(* SM2-lite scheduler (todayISO, isDue, schedule, scheduleSim) and the     *)
(* heuristic gesture recognizers behind recognize().                       *)
(*                                                                         *)
(* Numbers.  ease is kept in hundredths (2.3 is 230), so that + 0.08,      *)
(* - 0.2 and the clamps 1.3 / 2.8 are exact; Math.round is round-half-up.  *)
(* A Date is its instant in minutes since 1970-01-01T00:00Z; the host's    *)
(* timezone is a fixed offset tz, in minutes east of UTC.  A date string   *)
(* is the sequence of its UTF-16 code units, compared as JavaScript        *)
(* compares strings.                                                       *)
(***************************************************************************)
EXTENDS Integers, Sequences, FiniteSets, TLC

VARIABLES
    tz,        \* host timezone offset, minutes east of UTC
    item,      \* the stored ReviewItem: <<>> (absent) or <<record>>
    call,      \* the last call made, its arguments and its result; <<>> before any
    run,       \* history: successes since the last failure (or since Init)
    steps,     \* history: scheduleSim calls made since Init
    recog,     \* a recognize call: its arguments, whether made, and its result
    heap,      \* the objects scheduleSim reads and creates, by address 1, 2, ...
    sims,      \* the scheduleSim calls under way: each caller's activation
    env,       \* the app's surroundings: clock, vocabulary, camera, detector library
    app,       \* App's React state: mode, current, practiceQueue, srs, aiTimeout
    hook,      \* useHandsDetector: where init() stands, detector, ready, err
    view,      \* PracticeView: mounted, stableCounter, status, its detection loop
    pending,   \* callbacks that outlive a render: frames in flight, 350 ms timers
    objs,      \* the srs objects created so far, by address 1, 2, ...
    saved,     \* localStorage['asl_srs_v1']: <<>> or <<mapping>>
    hist       \* history: what the last event did, and counts since marked points

appVars == <<env, app, hook, view, pending, objs, saved, hist>>

vars ==
    <<tz, item, call, run, steps, recog, heap, sims,
      env, app, hook, view, pending, objs, saved, hist>>

----------------------------------------------------------------------------
(* Bounds of the model. *)

\* scheduleSim is not applied to an item whose interval exceeds this.
MaxInterval == 130

\* scheduleSim is not applied with success to an item whose streak reached this.
MaxStreak == 8

\* From an arbitrary stored item, at most this many reviews are chained.
MaxSimSteps == 3

\* The callers that run scheduleSim on one item at the same time.
MaxCallers == 2

----------------------------------------------------------------------------
(* JavaScript values. *)

Absent == <<>>

Some(x) == <<x>>

IsPresent(o) == o # <<>>

Get(o) == o[1]

Max(a, b) == IF a >= b THEN a ELSE b

Min(a, b) == IF a <= b THEN a ELSE b

Abs(a) == IF a < 0 THEN -a ELSE a

\* Math.round of the rational n / 100: the nearest integer, halves towards +oo.
RoundHundredths(n) == (n + 50) \div 100

----------------------------------------------------------------------------
(* The Date built-in, as far as srs.js uses it (proleptic Gregorian          *)
(* calendar, fixed-offset timezone).                                         *)

\* Days since 1970-01-01 of the civil date y-m-d (m in 1..12).
DaysFromCivil(y, m, d) ==
    LET yy  == IF m <= 2 THEN y - 1 ELSE y
        era == yy \div 400
        yoe == yy - era * 400
        mp  == IF m > 2 THEN m - 3 ELSE m + 9
        doy == (153 * mp + 2) \div 5 + d - 1
        doe == yoe * 365 + yoe \div 4 - yoe \div 100 + doy
    IN  era * 146097 + doe - 719468

\* The civil date [y, m, d] of a day number.
CivilFromDays(n) ==
    LET z   == n + 719468
        era == z \div 146097
        doe == z - era * 146097
        yoe == (doe - doe \div 1460 + doe \div 36524 - doe \div 146096) \div 365
        doy == doe - (365 * yoe + yoe \div 4 - yoe \div 100)
        mp  == (5 * doy + 2) \div 153
        d   == doy - (153 * mp + 2) \div 5 + 1
        m   == IF mp < 10 THEN mp + 3 ELSE mp - 9
        y   == yoe + era * 400 + (IF m <= 2 THEN 1 ELSE 0)
    IN  [y |-> y, m |-> m, d |-> d]

\* Code unit of a decimal digit.
DigitChar(k) == 48 + k

DigitVal(c) == c - 48

\* Date.prototype.toISOString().slice(0, 10): the UTC date of instant t.
ToISODate(t) ==
    LET c == CivilFromDays(t \div 1440)
    IN  << DigitChar(c.y \div 1000), DigitChar((c.y \div 100) % 10),
           DigitChar((c.y \div 10) % 10), DigitChar(c.y % 10), 45,
           DigitChar(c.m \div 10), DigitChar(c.m % 10), 45,
           DigitChar(c.d \div 10), DigitChar(c.d % 10) >>

\* new Date("yyyy-mm-dd"): a date-only ISO string is UTC midnight of that date.
DateParse(s) ==
    LET y == DigitVal(s[1]) * 1000 + DigitVal(s[2]) * 100
             + DigitVal(s[3]) * 10 + DigitVal(s[4])
        m == DigitVal(s[6]) * 10 + DigitVal(s[7])
        d == DigitVal(s[9]) * 10 + DigitVal(s[10])
    IN  DaysFromCivil(y, m, d) * 1440

\* getFullYear / getMonth / getDate: the fields of t on the host's local clock
\* (m is 1..12 here, getMonth's 0..11 plus one).
LocalFields(t, off) == CivilFromDays((t + off) \div 1440)

\* new Date(y, m, d): local midnight of that civil date, as an instant.
DateLocal(y, m, d, off) == DaysFromCivil(y, m, d) * 1440 - off

\* d.setDate(dom): day-of-month dom of d's local month (overflowing into the
\* neighbouring months), local time of day kept.
SetDate(t, dom, off) ==
    LET f   == LocalFields(t, off)
        tod == (t + off) % 1440
    IN  (DaysFromCivil(f.y, f.m, 1) + dom - 1) * 1440 + tod - off

\* a <= b on strings: code units compared from the left, a prefix being smaller.
RECURSIVE StrLE(_, _)
StrLE(a, b) ==
    IF a = <<>> THEN TRUE
    ELSE IF b = <<>> THEN FALSE
    ELSE IF Head(a) # Head(b) THEN Head(a) < Head(b)
    ELSE StrLE(Tail(a), Tail(b))

----------------------------------------------------------------------------
(* utils/srs.js: the scheduler. *)

\* todayISO(d): local midnight of d's local date, printed as its UTC date.
todayISO(d, off) ==
    LET f == LocalFields(d, off)
        z == DateLocal(f.y, f.m, f.d, off)
    IN  ToISODate(z)

\* The record scheduleSim starts from when item is absent.
DefaultItem(startDateISO) ==
    [ease |-> 230, intervalDays |-> 0, due |-> startDateISO, streak |-> 0]

\* A slip: the ease is raised before the interval is multiplied by it.
SuccessInterval_EaseFirst(intervalDays, ease) ==
    IF intervalDays = 0 THEN 1
    ELSE IF intervalDays = 1 THEN 3
    ELSE Max(1, RoundHundredths(intervalDays * Min(280, ease + 8)))

\* A slip: the interval is divided by the ease instead of multiplied.
SuccessInterval_Divide(intervalDays, ease) ==
    IF intervalDays = 0 THEN 1
    ELSE IF intervalDays = 1 THEN 3
    ELSE Max(1, RoundHundredths((intervalDays * 10000) \div Max(1, ease)))

\* The interval after a success: 0 -> 1, 1 -> 3, else max(1, round(i * ease)).
SuccessInterval(intervalDays, ease) ==
    IF intervalDays = 0 THEN 1
    ELSE IF intervalDays = 1 THEN 3
    ELSE Max(1, RoundHundredths(intervalDays * ease))

\* A slip: the cap of 2.8 is forgotten.
SuccessEase_NoCap(ease) == ease + 8

\* ease after a success: min(2.8, ease + 0.08).
SuccessEase(ease) == Min(280, ease + 8)

\* A slip: the floor of 1.3 is applied before the decrement.
FailureEase_FloorFirst(ease) == Max(130, ease) - 20

\* A slip: a failure raises the ease.
FailureEase_Raise(ease) == Max(130, ease + 20)

\* ease after a failure: max(1.3, ease - 0.2).
FailureEase(ease) == Max(130, ease - 20)

\* A slip: a failure leaves the streak as it was.
NextStreak_NoReset(streak, success) == IF success THEN streak + 1 ELSE streak

\* streak after a review: one more on success, 0 on failure.
NextStreak(streak, success) == IF success THEN streak + 1 ELSE 0

\* The due date: startDateISO parsed, moved intervalDays local days, printed.
DueDate(startDateISO, intervalDays, off) ==
    LET d0 == DateParse(startDateISO)
        d1 == SetDate(d0, LocalFields(d0, off).d + intervalDays, off)
    IN  todayISO(d1, off)

\* scheduleSim(item, success, startDateISO) on a host at offset off.
scheduleSim(it, success, startDateISO, off) ==
    LET base == IF IsPresent(it) THEN Get(it) ELSE DefaultItem(startDateISO)
        streak == NextStreak(base.streak, success)
        intervalDays == IF success
                        THEN SuccessInterval(base.intervalDays, base.ease)
                        ELSE 1
        ease == IF success THEN SuccessEase(base.ease) ELSE FailureEase(base.ease)
    IN  [ease |-> ease, intervalDays |-> intervalDays,
         due |-> DueDate(startDateISO, intervalDays, off), streak |-> streak]

\* A slip: the comparison is strict.
isDue_Strict(it, onDate) ==
    IF ~IsPresent(it) THEN "undefined"
    ELSE IF ~StrLE(onDate, Get(it).due) THEN "true" ELSE "false"

\* isDue(item, onDate): item && item.due <= onDate.
isDue(it, onDate) ==
    IF ~IsPresent(it) THEN "undefined"
    ELSE IF StrLE(Get(it).due, onDate) THEN "true" ELSE "false"

Truthy(v) == v = "true"

----------------------------------------------------------------------------
(* utils/srs.js: hand landmark utilities.                                    *)
(*                                                                           *)
(* A coordinate is an integer number of 1/60 pixel, so that the mean of up   *)
(* to five landmarks is exact; a length is in the same unit, rounded down.   *)
(* A point is <<>> (null / undefined) or <<[x, y]>>; a hand is <<>> or       *)
(* <<[keypoints]>> with keypoints <<>> (no such property) or <<list>>; a     *)
(* frame is <<>> or <<list of hands>>.                                       *)

\* The length 1 (a pixel) in the model's unit.
OnePixel == 60

\* The largest r with r * r <= n, searched in lo..hi.
RECURSIVE SqrtIn(_, _, _)
SqrtIn(n, lo, hi) ==
    IF lo >= hi THEN lo
    ELSE LET mid == (lo + hi + 1) \div 2
         IN  IF mid * mid <= n THEN SqrtIn(n, mid, hi) ELSE SqrtIn(n, lo, mid - 1)

\* Math.hypot(dx, dy), rounded down to the unit.
Hypot(dx, dy) == SqrtIn(dx * dx + dy * dy, 0, Abs(dx) + Abs(dy))

RECURSIVE GCD(_, _)
GCD(a, b) == IF b = 0 THEN a ELSE GCD(b, a % b)

\* (a?.x || 0) and (a?.y || 0).
XOf(a) == IF IsPresent(a) THEN Get(a).x ELSE 0

YOf(a) == IF IsPresent(a) THEN Get(a).y ELSE 0

\* dist(a, b): the Euclidean distance, a missing point taken as the origin.
dist(a, b) == Hypot(XOf(a) - XOf(b), YOf(a) - YOf(b))

\* angleABC(a, b, c): the angle at b, kept as its cosine dot / sqrt(mm) (zero:
\* a ray has no length and the code returns 0 degrees).  The angle does not
\* depend on the rays' lengths, so each ray is first reduced by the gcd of its
\* components.
angleABC(a, b, c) ==
    LET abx == a.x - b.x
        aby == a.y - b.y
        cbx == c.x - b.x
        cby == c.y - b.y
        g1  == GCD(Abs(abx), Abs(aby))
        g2  == GCD(Abs(cbx), Abs(cby))
    IN  IF g1 = 0 \/ g2 = 0
        THEN [zero |-> TRUE, dot |-> 0, mm |-> 0]
        ELSE LET ux == abx \div g1
                 uy == aby \div g1
                 vx == cbx \div g2
                 vy == cby \div g2
             IN  [zero |-> FALSE, dot |-> ux * vx + uy * vy,
                  mm |-> (ux * ux + uy * uy) * (vx * vx + vy * vy)]

\* angle > 160 degrees: cos < cos 160 = -0.93969..., cos^2 160 = 0.88302...
Over160(ang) ==
    /\ ~ang.zero
    /\ ang.dot < 0
    /\ ang.dot * ang.dot * 10000 > 8830 * ang.mm

\* angle < 100 degrees: cos > cos 100 = -0.17364..., cos^2 100 = 0.03015...
Under100(ang) ==
    \/ ang.zero
    \/ ang.dot >= 0
    \/ ang.dot * ang.dot * 10000 < 302 * ang.mm

\* hand?.keypoints || []
Keypoints(hand) ==
    IF IsPresent(hand) /\ IsPresent(Get(hand).keypoints)
    THEN Get(Get(hand).keypoints)
    ELSE <<>>

\* kp[i]: undefined beyond the end of the list.
At(kp, i) == IF i + 1 <= Len(kp) THEN kp[i + 1] ELSE <<>>

\* palmSize(hand): wrist to middle-finger MCP, 1 pixel when either is missing.
palmSize(hand) ==
    LET w == At(Keypoints(hand), 0)
        m == At(Keypoints(hand), 9)
    IN  IF ~IsPresent(w) \/ ~IsPresent(m) THEN OnePixel ELSE dist(w, m)

\* A slip: a missing landmark is passed on as it is.
SafePoint_NoFallback(kp, i) == At(kp, i)

\* safe(i): kp[i] || kp[0] || {x: 0, y: 0}, as the point or <<>>.
SafePoint(kp, i) ==
    IF IsPresent(At(kp, i)) THEN At(kp, i)
    ELSE IF IsPresent(At(kp, 0)) THEN At(kp, 0)
    ELSE Some([x |-> 0, y |-> 0])

Safe(kp, i) == Get(SafePoint(kp, i))

\* angleABC reads a.x, b.x and c.x without a guard: a TypeError is raised
\* when one of its points is null or undefined.
angleABCRaises(a, b, c) == ~IsPresent(a) \/ ~IsPresent(b) \/ ~IsPresent(c)

\* The landmark triples fingerAngles measures.
AngleTriples ==
    { <<2, 3, 4>>, <<1, 2, 3>>, <<5, 6, 7>>, <<6, 7, 8>>, <<9, 10, 11>>,
      <<10, 11, 12>>, <<13, 14, 15>>, <<14, 15, 16>>, <<17, 18, 19>>,
      <<18, 19, 20>> }

\* fingerAngles(hand) raises when one of its angleABC calls does.
fingerAnglesRaises(hand) ==
    LET kp == Keypoints(hand)
    IN  \E t \in AngleTriples :
            angleABCRaises(SafePoint(kp, t[1]), SafePoint(kp, t[2]),
                           SafePoint(kp, t[3]))

\* fingerAngles(hand)
fingerAngles(hand) ==
    LET kp == Keypoints(hand)
        A(i, j, k) == angleABC(Safe(kp, i), Safe(kp, j), Safe(kp, k))
    IN  [thumb  |-> [pip |-> A(2, 3, 4),    mcp |-> A(1, 2, 3)],
         index  |-> [pip |-> A(5, 6, 7),    dip |-> A(6, 7, 8)],
         middle |-> [pip |-> A(9, 10, 11),  dip |-> A(10, 11, 12)],
         ring   |-> [pip |-> A(13, 14, 15), dip |-> A(14, 15, 16)],
         pinky  |-> [pip |-> A(17, 18, 19), dip |-> A(18, 19, 20)]]

\* isExtended(pip, dip), isCurled(pip, dip): both angles are always passed.
isExtended(pip, dip) == Over160(pip) /\ Over160(dip)

isCurled(pip, dip) == Under100(pip) /\ Under100(dip)

\* [..].filter(Boolean).length
CountTrue(bs) == Cardinality({ i \in DOMAIN bs : bs[i] })

----------------------------------------------------------------------------
(* utils/srs.js: the recognizers.  A result is <<>> (null) or                *)
(* <<[label, confidence]>>, the confidence in hundredths.                    *)

Null == <<>>

\* The five checks of one hand, counted.
ILYCount(hand) ==
    LET ang == fingerAngles(hand)
    IN  CountTrue(<< Over160(ang.thumb.pip),
                     isExtended(ang.index.pip, ang.index.dip),
                     isCurled(ang.middle.pip, ang.middle.dip),
                     isCurled(ang.ring.pip, ang.ring.dip),
                     isExtended(ang.pinky.pip, ang.pinky.dip) >>)

\* A slip: a score of 0.8 is enough.
RECURSIVE ILYFrom_AtLeast(_, _)
ILYFrom_AtLeast(hands, i) ==
    IF i > Len(hands) THEN Null
    ELSE LET score == (ILYCount(hands[i]) * 100) \div 5
         IN  IF score >= 80
             THEN Some([label |-> "I Love You", confidence |-> score])
             ELSE ILYFrom_AtLeast(hands, i + 1)

\* A slip: only the hand at i is examined.
ILYFrom_OneHand(hands, i) ==
    IF i > Len(hands) THEN Null
    ELSE LET score == (ILYCount(hands[i]) * 100) \div 5
         IN  IF score > 80
             THEN Some([label |-> "I Love You", confidence |-> score])
             ELSE Null

\* The loop of recogILY over hands[i..]: the first hand with score > 0.8.
RECURSIVE ILYFrom(_, _)
ILYFrom(hands, i) ==
    IF i > Len(hands) THEN Null
    ELSE LET score == (ILYCount(hands[i]) * 100) \div 5
         IN  IF score > 80
             THEN Some([label |-> "I Love You", confidence |-> score])
             ELSE ILYFrom(hands, i + 1)

recogILY(frame) ==
    IF ~IsPresent(frame) \/ Len(Get(frame)) < 1 THEN Null
    ELSE ILYFrom(Get(frame), 1)

\* A slip: three extended fingers are enough.
recogStopHand_ThreeFingers(hand) ==
    LET ang == fingerAngles(hand)
        count == CountTrue(<< isExtended(ang.index.pip, ang.index.dip),
                              isExtended(ang.middle.pip, ang.middle.dip),
                              isExtended(ang.ring.pip, ang.ring.dip),
                              isExtended(ang.pinky.pip, ang.pinky.dip) >>)
        confidence == (count * 100) \div 4
    IN  IF confidence >= 75
        THEN Some([label |-> "Stop", confidence |-> confidence])
        ELSE Null

\* The body of recogStop, for its hand hands[0].
recogStopHand(hand) ==
    LET ang == fingerAngles(hand)
        count == CountTrue(<< isExtended(ang.index.pip, ang.index.dip),
                              isExtended(ang.middle.pip, ang.middle.dip),
                              isExtended(ang.ring.pip, ang.ring.dip),
                              isExtended(ang.pinky.pip, ang.pinky.dip) >>)
        confidence == (count * 100) \div 4
    IN  IF confidence > 85
        THEN Some([label |-> "Stop", confidence |-> confidence])
        ELSE Null

\* A slip: every hand is examined, as recogILY does.
recogStop_AnyHand(frame) ==
    IF ~IsPresent(frame) \/ Len(Get(frame)) < 1 THEN Null
    ELSE LET hits == { i \in 1..Len(Get(frame)) :
                         recogStopHand(Get(frame)[i]) # Null }
         IN  IF hits = {} THEN Null
             ELSE recogStopHand(Get(frame)[CHOOSE i \in hits : TRUE])

recogStop(frame) ==
    IF ~IsPresent(frame) \/ Len(Get(frame)) < 1 THEN Null
    ELSE recogStopHand(Get(frame)[1])

\* pSize || 1
OrOne(len) == IF len = 0 THEN OnePixel ELSE len

isOShape(hand) ==
    LET kp == Keypoints(hand)
        pSize == palmSize(hand)
        thumbTip == At(kp, 4)
        indexTip == At(kp, 8)
    IN  IF ~IsPresent(thumbTip) \/ ~IsPresent(indexTip) THEN FALSE
        ELSE dist(thumbTip, indexTip) * 100 < 35 * OrOne(pSize)

RECURSIVE SumOf(_, _)
SumOf(pts, f) == IF pts = <<>> THEN 0 ELSE Head(pts)[f] + SumOf(Tail(pts), f)

\* handCenter(hand): the mean of the wrist and the four MCPs that are present.
handCenter(hand) ==
    LET kp == Keypoints(hand)
        all == << At(kp, 0), At(kp, 5), At(kp, 9), At(kp, 13), At(kp, 17) >>
        pts == SelectSeq(all, IsPresent)
        xs == [i \in 1..Len(pts) |-> Get(pts[i])]
    IN  IF Len(pts) = 0 THEN [x |-> 0, y |-> 0]
        ELSE [x |-> SumOf(xs, "x") \div Len(pts), y |-> SumOf(xs, "y") \div Len(pts)]

\* Twice the value of (palmSize(h1) + palmSize(h2)) / 2 || 1.
TwicePs(h1, h2) ==
    LET sum == palmSize(h1) + palmSize(h2)
    IN  IF sum = 0 THEN 2 * OnePixel ELSE sum

\* A slip: the distance between the two hands is not looked at.
recogMorePair_AnyDistance(h1, h2) ==
    IF isOShape(h1) /\ isOShape(h2)
    THEN Some([label |-> "More", confidence |-> 90])
    ELSE Null

\* The body of recogMore, for its two hands h1 = hands[0] and h2 = hands[1].
recogMorePair(h1, h2) ==
    IF ~(isOShape(h1) /\ isOShape(h2)) THEN Null
    ELSE LET c1 == handCenter(h1)
             c2 == handCenter(h2)
             centersClose ==
                 dist(Some(c1), Some(c2)) * 20 < 12 * TwicePs(h1, h2)
         IN  IF centersClose
             THEN Some([label |-> "More", confidence |-> 90])
             ELSE Null

recogMore(frame) ==
    IF ~IsPresent(frame) \/ Len(Get(frame)) < 2 THEN Null
    ELSE recogMorePair(Get(frame)[1], Get(frame)[2])

\* How many of index, middle, ring and pinky are curled / extended.
CurledCount(hand) ==
    LET ang == fingerAngles(hand)
    IN  CountTrue(<< isCurled(ang.index.pip, ang.index.dip),
                     isCurled(ang.middle.pip, ang.middle.dip),
                     isCurled(ang.ring.pip, ang.ring.dip),
                     isCurled(ang.pinky.pip, ang.pinky.dip) >>)

ExtendedCount(hand) ==
    LET ang == fingerAngles(hand)
    IN  CountTrue(<< isExtended(ang.index.pip, ang.index.dip),
                     isExtended(ang.middle.pip, ang.middle.dip),
                     isExtended(ang.ring.pip, ang.ring.dip),
                     isExtended(ang.pinky.pip, ang.pinky.dip) >>)

isFist(hand) == CurledCount(hand) >= 3

isFlatPalm(hand) == ExtendedCount(hand) >= 3

\* The body of recogHelp, for its two hands: const [a, b] = hands.
recogHelpPair(a, b) ==
    LET aC == handCenter(a)
        bC == handCenter(b)
        ps2 == TwicePs(a, b)
        near == /\ Abs(aC.x - bC.x) * 20 < 12 * ps2
                /\ Abs(aC.y - bC.y) * 20 < 12 * ps2
        aAbove == aC.y < bC.y
    IN  IF isFist(a) /\ isFlatPalm(b) /\ near /\ aAbove
        THEN Some([label |-> "Help", confidence |-> 85])
        ELSE IF isFist(b) /\ isFlatPalm(a) /\ near /\ ~aAbove
        THEN Some([label |-> "Help", confidence |-> 85])
        ELSE Null

\* A slip: one hand is enough, the second is then undefined.
recogHelp_OneHand(frame) ==
    IF ~IsPresent(frame) \/ Len(Get(frame)) < 1 THEN Null
    ELSE recogHelpPair(Get(frame)[1],
                       IF Len(Get(frame)) >= 2 THEN Get(frame)[2] ELSE <<>>)

recogHelp(frame) ==
    IF ~IsPresent(frame) \/ Len(Get(frame)) < 2 THEN Null
    ELSE recogHelpPair(Get(frame)[1], Get(frame)[2])

\* The loop of recogILY raises at the first hand whose angles cannot be
\* measured, unless an earlier hand has already been returned.
RECURSIVE ILYRaisesFrom(_, _)
ILYRaisesFrom(hands, i) ==
    IF i > Len(hands) THEN FALSE
    ELSE IF fingerAnglesRaises(hands[i]) THEN TRUE
    ELSE IF (ILYCount(hands[i]) * 100) \div 5 > 80 THEN FALSE
    ELSE ILYRaisesFrom(hands, i + 1)

\* recognize(target, hands) raises a TypeError instead of returning.  Only
\* angleABC reads a landmark without a guard: recogMore never calls it, and
\* dist, palmSize, isOShape and handCenter guard every read (?., !x,
\* filter(Boolean)).
recognizeRaises(target, frame) ==
    IF ~IsPresent(frame) THEN FALSE
    ELSE LET hands == Get(frame)
         IN  IF target = "I Love You"
             THEN Len(hands) >= 1 /\ ILYRaisesFrom(hands, 1)
             ELSE IF target = "Stop"
             THEN Len(hands) >= 1 /\ fingerAnglesRaises(hands[1])
             ELSE IF target = "Help"
             THEN Len(hands) >= 2 /\ (\/ fingerAnglesRaises(hands[1])
                                      \/ fingerAnglesRaises(hands[2]))
             ELSE FALSE

\* A slip: an unknown label falls through to the last recognizer.
recognize_FallThrough(target, frame) ==
    IF target = "I Love You" THEN recogILY(frame)
    ELSE IF target = "Stop" THEN recogStop(frame)
    ELSE IF target = "More" THEN recogMore(frame)
    ELSE recogHelp(frame)

\* recognize(target, hands): the switch over the four supported labels.
recognize(target, frame) ==
    IF target = "I Love You" THEN recogILY(frame)
    ELSE IF target = "Stop" THEN recogStop(frame)
    ELSE IF target = "More" THEN recogMore(frame)
    ELSE IF target = "Help" THEN recogHelp(frame)
    ELSE Null

\* PracticeView's acceptance test of a recognizer result:
\* recognized && recognized.label === target && recognized.confidence > 0.8.
Accepts(recognized, target) ==
    /\ IsPresent(recognized)
    /\ Get(recognized).label = target
    /\ Get(recognized).confidence > 80

----------------------------------------------------------------------------
(* The inputs the model draws from. *)

\* Host timezones: UTC, and offsets west and east of it (minutes east).
TZOffsets == {-300, 0, 330, 840}

ISODateOf(y, m, d) == ToISODate(DaysFromCivil(y, m, d) * 1440)

\* Reference dates: before a leap day and at a year end.
RefDates == { ISODateOf(2024, 2, 28), ISODateOf(2024, 12, 31) }

\* Dates isDue is asked about.
OnDates == { ISODateOf(2024, 2, 29), ISODateOf(2024, 3, 1), ISODateOf(2025, 1, 1) }

\* Hands, as 21 landmarks in pixels relative to the wrist (y grows downwards):
\* the wrist, then thumb, index, middle, ring and pinky from the palm outwards.
ShapeILY ==
    << <<0, 0>>, <<-2, -1>>, <<-3, -2>>, <<-4, -3>>,
       <<-5, -4>>, <<-2, -5>>, <<-2, -7>>, <<-2, -9>>,
       <<-2, -11>>, <<0, -5>>, <<0, -7>>, <<1, -7>>,
       <<1, -6>>, <<2, -5>>, <<2, -7>>, <<3, -7>>,
       <<3, -6>>, <<4, -5>>, <<4, -7>>, <<4, -9>>,
       <<4, -11>> >>

ShapePalm ==
    << <<0, 0>>, <<-2, -1>>, <<-3, -2>>, <<-4, -3>>,
       <<-5, -4>>, <<-2, -5>>, <<-2, -7>>, <<-2, -9>>,
       <<-2, -11>>, <<0, -5>>, <<0, -7>>, <<0, -9>>,
       <<0, -11>>, <<2, -5>>, <<2, -7>>, <<2, -9>>,
       <<2, -11>>, <<4, -5>>, <<4, -7>>, <<4, -9>>,
       <<4, -11>> >>

ShapeFist ==
    << <<0, 0>>, <<-2, -1>>, <<-3, -2>>, <<-3, -3>>,
       <<-2, -3>>, <<-2, -5>>, <<-2, -7>>, <<-1, -7>>,
       <<-1, -6>>, <<0, -5>>, <<0, -7>>, <<1, -7>>,
       <<1, -6>>, <<2, -5>>, <<2, -7>>, <<3, -7>>,
       <<3, -6>>, <<4, -5>>, <<4, -7>>, <<5, -7>>,
       <<5, -6>> >>

ShapeO ==
    << <<0, 0>>, <<-2, -1>>, <<-3, -2>>, <<-3, -3>>,
       <<-2, -6>>, <<-2, -5>>, <<-2, -7>>, <<-3, -7>>,
       <<-3, -6>>, <<0, -5>>, <<0, -7>>, <<0, -9>>,
       <<0, -11>>, <<2, -5>>, <<2, -7>>, <<2, -9>>,
       <<2, -11>>, <<4, -5>>, <<4, -7>>, <<4, -9>>,
       <<4, -11>> >>

\* The hand of that shape with its wrist at pixel (ox, oy).
HandAt(shape, ox, oy) ==
    Some([keypoints |->
        Some([i \in 1..Len(shape) |->
            Some([x |-> (shape[i][1] + ox) * OnePixel,
                  y |-> (shape[i][2] + oy) * OnePixel])])])

\* A hand with an empty landmark list, and no hand at all.
EmptyHand == Some([keypoints |-> Some(<<>>)])

NullHand == <<>>

\* A hand object without a keypoints property.
NoListHand == Some([keypoints |-> <<>>])

\* A hand whose 21 landmarks are all null.
AllNullHand == Some([keypoints |-> Some([i \in 1..21 |-> <<>>])])

\* A hand whose 21 landmarks all lie on pixel (ox, oy).
PointHand(ox, oy) ==
    Some([keypoints |->
        Some([i \in 1..21 |-> Some([x |-> ox * OnePixel, y |-> oy * OnePixel])])])

\* The hand cut off after its first n landmarks.
Truncated(hand, n) ==
    Some([keypoints |-> Some(SubSeq(Keypoints(hand), 1, n))])

\* The hand with the landmarks of the (0-based) indexes in holes set to null.
WithNulls(hand, holes) ==
    Some([keypoints |->
        Some([i \in 1..Len(Keypoints(hand)) |->
            IF (i - 1) \in holes THEN <<>> ELSE Keypoints(hand)[i]])])

\* The hands a frame is made of: whole hands, hands with landmarks missing
\* (no thumb tip; the pinky cut off), and a hand shrunk to a point.
HandLib ==
    { HandAt(ShapeILY, 6, 12), HandAt(ShapePalm, 6, 14), HandAt(ShapeFist, 6, 12),
      HandAt(ShapeO, 6, 12), HandAt(ShapeO, 9, 12), HandAt(ShapeO, 15, 12),
      HandAt(ShapePalm, 1, 5), EmptyHand, NullHand, NoListHand, AllNullHand,
      WithNulls(HandAt(ShapeILY, 6, 12), {4}),
      Truncated(HandAt(ShapePalm, 6, 14), 17), PointHand(6, 12) }

\* The hands that follow the first two of a longer frame.
TailLib == { HandAt(ShapeILY, 6, 12), HandAt(ShapePalm, 6, 14), NullHand }

\* The most hands in a frame.
MaxHands == 3

RECURSIVE SeqsUpTo(_, _)
SeqsUpTo(S, n) ==
    IF n = 0 THEN { <<>> }
    ELSE LET shorter == SeqsUpTo(S, n - 1)
         IN  shorter \cup { Append(q, h) : q \in { r \in shorter : Len(r) = n - 1 }, h \in S }

\* Frames: none, or a list of up to MaxHands hands.  No recognizer but
\* recogILY reads past the second hand, so the later hands are drawn from the
\* smaller TailLib.
Frames ==
    { Absent } \cup
    { Some(p[1] \o p[2]) :
        p \in { q \in SeqsUpTo(HandLib, Min(2, MaxHands))
                        \X SeqsUpTo(TailLib, Max(0, MaxHands - 2)) :
                    Len(q[1]) = 2 \/ q[2] = <<>> } }

\* Target labels: the four supported ones, and others.
SupportedLabels == { "I Love You", "Stop", "More", "Help" }

Targets == SupportedLabels \cup { "", "Please", "All Done", "stop" }

\* ease values a stored item may carry: in range, at the clamps and outside.
InputEases == {-50, 0, 100, 129, 130, 131, 150, 230, 250, 279, 280, 281, 330, 500}

\* intervals a stored item may carry, negative (corrupted storage) included.
InputIntervals == {-7, -1, 0, 1, 2, 3, 7, 10}

InputStreaks == {0, 3}

InputItems ==
    { Absent } \cup
    { Some([ease |-> e, intervalDays |-> i, due |-> d, streak |-> s]) :
        e \in InputEases, i \in InputIntervals, d \in RefDates, s \in InputStreaks }

----------------------------------------------------------------------------
(* data/signs.js, App.jsx and components/PracticeView.jsx: the app's state.  *)
(*                                                                           *)
(* An srs object is a function from the vocabulary to <<>> (no such key) or  *)
(* <<item>>; objs holds the srs objects by address, so that a copy and the   *)
(* object it was copied from can be told apart.  A sign held in React state  *)
(* is <<>> (null) or <<id>>.                                                 *)

\* Length of the vocabulary in the models of a review session.
MaxSigns == 3

\* Length of the vocabulary in the models of the practice view.
MaxViewSigns == 2

\* Frames in flight of loops already cleaned up, and pending 350 ms timers.
MaxPending == 1

\* Non-matching frames since the stable counter was last reset or the
\* recognizer last reported.
MaxMissed == 1

\* Schedule calls in one behaviour of the models of a review session.
MaxReviews == 2

\* Schedule calls in one behaviour of the models of the fallback to manual
\* practice.
MaxFallbackReviews == 1

\* Schedule calls in one behaviour of the models of the practice view.
MaxViewReviews == 2

\* The ids of ALL_SIGNS, in order.
ALL_SIGNS ==
    << "Help", "All Done", "Please", "More", "Good", "Happy", "Sad", "Sleep",
       "Drink", "Eat", "Spoon", "Bed", "Diaper", "Book", "Mommy", "Daddy",
       "Grandma", "Grandpa", "Baby", "Rain", "House", "Car", "Stroller",
       "I Love You", "Hug", "Cold", "Pain", "Open", "Close", "Cry", "Play",
       "Stop", "Go", "Laugh", "Tired", "Up", "Out", "Hold Me" >>

\* !!AI_SUPPORTED[sign]
AI_SUPPORTED(sign) == sign \in { "I Love You", "More", "Help", "Stop" }

\* The first n signs: the vocabulary of a bounded model.
Vocabulary(n) == SubSeq(ALL_SIGNS, 1, Min(n, Len(ALL_SIGNS)))

Range(s) == { s[i] : i \in 1..Len(s) }

\* The signs of the running app, as a sequence and as a set.
Signs == env.signs
SignIds == Range(env.signs)

\* todayISO() while the app runs.
Today == env.today

\* The moment the app is opened: 2024-02-28 12:00 UTC.
Noon == DaysFromCivil(2024, 2, 28) * 1440 + 720

\* loadSrs() with nothing stored: every sign starts due today.
FreshSrs(signs, today) == [id \in Range(signs) |-> Some(DefaultItem(today))]

\* Stored mappings loadSrs() may parse: every other sign due, the rest not;
\* nothing due; the first sign unknown to an older vocabulary.
StoredItemDue ==
    [ease |-> 230, intervalDays |-> 0, due |-> ISODateOf(2024, 2, 20), streak |-> 0]
StoredItemLater ==
    [ease |-> 246, intervalDays |-> 3, due |-> ISODateOf(2024, 3, 6), streak |-> 2]
IndexOf(s, x) ==
    IF \E i \in 1..Len(s) : s[i] = x
    THEN (CHOOSE i \in 1..Len(s) : s[i] = x /\ \A j \in 1..(i - 1) : s[j] # x) - 1
    ELSE -1
StoredSrs(signs) ==
    { [id \in Range(signs) |->
         IF IndexOf(signs, id) % 2 = 0 THEN Some(StoredItemDue)
         ELSE Some(StoredItemLater)],
      [id \in Range(signs) |-> Some(StoredItemLater)],
      [id \in Range(signs) |->
         IF IndexOf(signs, id) = 0 THEN Absent ELSE Some(StoredItemDue)] }

\* loadSrs(): the stored mapping if there is one, else a fresh one, saved.
loadSrs(raw, signs, today) ==
    IF IsPresent(raw) THEN Get(raw) ELSE FreshSrs(signs, today)

\* useHandsDetector before init() has got anywhere.
HookAt(pc, err) ==
    [pc |-> pc, detector |-> FALSE, ready |-> err # "", err |-> err]

\* PracticeView not mounted.
NoView ==
    [mounted |-> FALSE, target |-> "", detector |-> FALSE, stableCounter |-> 0,
     loop |-> "none"]

\* Nothing outlives a render: frames holds the frames in flight of loops
\* already cleaned up, cells the stable counters of unmounted views that such
\* a frame still refers to, timers the pending setTimeout(onResult) calls.
NoPending == [frames |-> <<>>, cells |-> <<>>, timers |-> <<>>]

\* No event yet.  last is the last event: the handler that ran, the sign and
\* outcome it was about, the closure cl it read, who called it, App's state,
\* the srs it read and the srs state object before it, what was stored, the
\* matching less the non-matching frames so far, and what a frame did.
NoEvent ==
    [op |-> "none", sign |-> "", ok |-> FALSE,
     cl |-> [mode |-> "home", current |-> Absent, practiceQueue |-> <<>>,
             srs |-> 0],
     by |-> "user",
     app |-> [mode |-> "home", current |-> Absent, practiceQueue |-> <<>>,
              srs |-> 0, aiTimeout |-> FALSE],
     read |-> <<>>, state |-> <<>>, saved |-> Absent, net |-> 0, effect |-> {}]

NoHist ==
    [last |-> NoEvent, session |-> Absent, reviews |-> 0, net |-> 0,
     missed |-> 0, graded |-> <<>>]

\* The app is not part of the behaviour.
AppNotStarted ==
    /\ env = [now |-> 0, today |-> <<>>, signs |-> <<>>, camera |-> "unavailable",
              library |-> "fails", accepted |-> {}, maxReviews |-> 0]
    /\ app = [mode |-> "home", current |-> Absent, practiceQueue |-> <<>>,
              srs |-> 0, aiTimeout |-> FALSE]
    /\ hook = HookAt("done", "")
    /\ view = NoView
    /\ pending = NoPending
    /\ objs = <<>>
    /\ saved = Absent
    /\ hist = NoHist

----------------------------------------------------------------------------
(* Operations. *)

\* No recognize call is under way.
NoRecog ==
    [target |-> "", hands |-> Absent, called |-> FALSE, raised |-> FALSE,
     result |-> Null]

Callers == 1..MaxCallers

\* A caller that is not in scheduleSim.  base and result are addresses in the
\* heap (0: none); ease, intervalDays and streak are the function's locals.
Idle ==
    [pc |-> "idle", success |-> FALSE, date |-> <<>>, base |-> 0,
     ease |-> 0, intervalDays |-> 0, streak |-> 0, result |-> 0]

NoSims == [c \in Callers |-> Idle]

\* One review of the item: schedule() stores what scheduleSim returns.
schedule(success, startDateISO) ==
    /\ IsPresent(item) => /\ Get(item).intervalDays <= MaxInterval
                          /\ success => Get(item).streak < MaxStreak
    /\ LET nextItem == scheduleSim(item, success, startDateISO, tz)
       IN  /\ item' = Some(nextItem)
           /\ call' = Some([op |-> "scheduleSim", item |-> item,
                            success |-> success, date |-> startDateISO,
                            result |-> nextItem])
    /\ run' = IF success THEN run + 1 ELSE 0
    /\ UNCHANGED <<tz, recog, heap, sims>>
    /\ UNCHANGED appVars

\* A review in the life of an item that started from the defaults.
Review(success, startDateISO) ==
    /\ schedule(success, startDateISO)
    /\ UNCHANGED steps

\* A review of an arbitrary stored item.
SimReview(success, startDateISO) ==
    /\ steps < MaxSimSteps
    /\ schedule(success, startDateISO)
    /\ steps' = steps + 1

\* One isDue(item, onDate) query.
CheckDue(onDate) ==
    /\ call' = Some([op |-> "isDue", item |-> item, date |-> onDate,
                     result |-> isDue(item, onDate)])
    /\ UNCHANGED <<tz, item, run, steps, recog, heap, sims>>
    /\ UNCHANGED appVars

\* A freshly created item, as loadSrs makes it (or none stored yet).
Init ==
    /\ tz \in TZOffsets
    /\ item \in { Absent } \cup { Some(DefaultItem(d)) : d \in RefDates }
    /\ call = <<>>
    /\ run = 0
    /\ steps = 0
    /\ recog = NoRecog
    /\ heap = <<>>
    /\ sims = NoSims
    /\ AppNotStarted

Next ==
    \/ \E success \in BOOLEAN, d \in RefDates : Review(success, d)
    \/ \E d \in OnDates : CheckDue(d)

Spec == Init /\ [][Next]_vars

\* scheduleSim and isDue as pure functions: any stored item as the input.
InitSim ==
    /\ tz \in TZOffsets
    /\ item \in InputItems
    /\ call = <<>>
    /\ run = 0
    /\ steps = 0
    /\ recog = NoRecog
    /\ heap = <<>>
    /\ sims = NoSims
    /\ AppNotStarted

NextSim ==
    \/ \E success \in BOOLEAN, d \in RefDates : SimReview(success, d)
    \/ \E d \in OnDates : CheckDue(d)

SpecSim == InitSim /\ [][NextSim]_vars

\* scheduleSim statement by statement.  The item passed in is the object at
\* address 1 of the heap, shared by all callers; the callers' statements
\* interleave in any order.

\* const base = item || { ease: 2.3, intervalDays: 0, due: startDateISO,
\* streak: 0 }: the item itself, or a new object.
SimEnter(c, success, startDateISO) ==
    /\ sims[c].pc = "idle"
    /\ IF IsPresent(item)
       THEN /\ sims' = [sims EXCEPT ![c] = [@ EXCEPT !.pc = "destructure",
                                                     !.success = success,
                                                     !.date = startDateISO,
                                                     !.base = 1]]
            /\ UNCHANGED heap
       ELSE /\ heap' = Append(heap, DefaultItem(startDateISO))
            /\ sims' = [sims EXCEPT ![c] = [@ EXCEPT !.pc = "destructure",
                                                     !.success = success,
                                                     !.date = startDateISO,
                                                     !.base = Len(heap) + 1]]
    /\ UNCHANGED <<tz, item, call, run, steps, recog>>
    /\ UNCHANGED appVars

\* let { ease, intervalDays, streak } = base
SimDestructure(c) ==
    /\ sims[c].pc = "destructure"
    /\ sims' = [sims EXCEPT ![c] =
                  [@ EXCEPT !.pc = "update",
                            !.ease = heap[sims[c].base].ease,
                            !.intervalDays = heap[sims[c].base].intervalDays,
                            !.streak = heap[sims[c].base].streak]]
    /\ UNCHANGED <<tz, item, call, run, steps, recog, heap>>
    /\ UNCHANGED appVars

\* if (success) { ... } else { ... }: the locals are reassigned.
SimUpdate(c) ==
    /\ sims[c].pc = "update"
    /\ sims' = [sims EXCEPT ![c] =
                  [@ EXCEPT !.pc = "return",
                            !.streak = NextStreak(@, sims[c].success),
                            !.intervalDays =
                                IF sims[c].success
                                THEN SuccessInterval(@, sims[c].ease)
                                ELSE 1,
                            !.ease = IF sims[c].success THEN SuccessEase(@)
                                     ELSE FailureEase(@)]]
    /\ UNCHANGED <<tz, item, call, run, steps, recog, heap>>
    /\ UNCHANGED appVars

\* The record scheduleSim returns, from its locals.
SimResult(c) ==
    [ease |-> sims[c].ease, intervalDays |-> sims[c].intervalDays,
     due |-> DueDate(sims[c].date, sims[c].intervalDays, tz),
     streak |-> sims[c].streak]

\* A slip: the result is written into base, and base is returned.
SimReturn_IntoBase(c) ==
    /\ sims[c].pc = "return"
    /\ heap' = [heap EXCEPT ![sims[c].base] = SimResult(c)]
    /\ sims' = [sims EXCEPT ![c] = [@ EXCEPT !.pc = "done", !.result = sims[c].base]]
    /\ UNCHANGED <<tz, item, call, run, steps, recog>>
    /\ UNCHANGED appVars

\* return { ease, intervalDays, due: todayISO(d), streak }: a new object.
SimReturn(c) ==
    /\ sims[c].pc = "return"
    /\ heap' = Append(heap, SimResult(c))
    /\ sims' = [sims EXCEPT ![c] = [@ EXCEPT !.pc = "done",
                                             !.result = Len(heap) + 1]]
    /\ UNCHANGED <<tz, item, call, run, steps, recog>>
    /\ UNCHANGED appVars

\* The items the concurrent callers are handed: none, a new one, one in use.
SharedItems ==
    { Absent, Some(DefaultItem(ISODateOf(2024, 2, 28))),
      Some([ease |-> 246, intervalDays |-> 3, due |-> ISODateOf(2024, 12, 31),
            streak |-> 2]),
      Some([ease |-> 140, intervalDays |-> 7, due |-> ISODateOf(2024, 2, 28),
            streak |-> 0]) }

\* Several callers run scheduleSim on the same item.
InitShared ==
    /\ tz \in TZOffsets
    /\ item \in SharedItems
    /\ call = <<>>
    /\ run = 0
    /\ steps = 0
    /\ recog = NoRecog
    /\ heap = IF IsPresent(item) THEN << Get(item) >> ELSE <<>>
    /\ sims = NoSims
    /\ AppNotStarted

NextShared ==
    \/ \E c \in Callers, success \in BOOLEAN, d \in RefDates :
          SimEnter(c, success, d)
    \/ \E c \in Callers : SimDestructure(c)
    \/ \E c \in Callers : SimUpdate(c)
    \/ \E c \in Callers : SimReturn(c)

SpecShared == InitShared /\ [][NextShared]_vars

\* The recognize(target, hands) call is made: it returns a result, or raises.
Recognize ==
    /\ ~recog.called
    /\ LET raised == recognizeRaises(recog.target, recog.hands)
       IN  recog' = [recog EXCEPT
                        !.called = TRUE,
                        !.raised = raised,
                        !.result = IF raised THEN Null
                                   ELSE recognize(recog.target, recog.hands)]
    /\ UNCHANGED <<tz, item, call, run, steps, heap, sims>>
    /\ UNCHANGED appVars

\* The recognizer alone, on any target and frame: the scheduler's state stays
\* as created.
InitRecog ==
    /\ tz = 0
    /\ item = Absent
    /\ call = <<>>
    /\ run = 0
    /\ steps = 0
    /\ recog \in { [target |-> t, hands |-> f, called |-> FALSE,
                      raised |-> FALSE, result |-> Null] :
                     t \in Targets, f \in Frames }
    /\ heap = <<>>
    /\ sims = NoSims
    /\ AppNotStarted

NextRecog == Recognize

SpecRecog == InitRecog /\ [][NextRecog]_vars

----------------------------------------------------------------------------
(* App.jsx, components/PracticeView.jsx and hooks/useHandsDetector.js.       *)
(*                                                                           *)
(* A handler is the function object of the render that created it: it reads  *)
(* mode, current, practiceQueue and srs as they were at that render.  The    *)
(* handlers of the buttons on screen belong to the latest render; a timer or *)
(* a frame in flight may hold an older one.  aiSupported always equals       *)
(* !!AI_SUPPORTED[target], its value once the effect on target has run.      *)

\* dueToday.slice(0, 8)
QueueCap == 8

\* stableCounter.current >= 8
StableFrames == 8

\* What a handler created by the render of App state a reads.
Closure(a) ==
    [mode |-> a.mode, current |-> a.current, practiceQueue |-> a.practiceQueue,
     srs |-> a.srs]

\* (mode === 'practice' || mode === 'free') && current
Practising(a) == a.mode \in {"practice", "free"} /\ IsPresent(a.current)

\* const detectorReady = !!detector && ready
detectorReady(h) == h.detector /\ h.ready

\* A slip: the loading card does not give way after the 6 s timeout.
LoadingCardShown_NoTimeout(a, h) ==
    Practising(a) /\ ~detectorReady(h) /\ h.err = ""

\* !detectorReady && !err && !aiTimeout, inside the practice screen.
LoadingCardShown(a, h) ==
    Practising(a) /\ ~detectorReady(h) /\ h.err = "" /\ ~a.aiTimeout

\* PracticeView and the "Did it register?" panel are rendered.
PracticeViewShown(a, h) == Practising(a) /\ ~LoadingCardShown(a, h)

\* PracticeView: const canAI = aiSupported && !!detector
canAI(target, detector) == AI_SUPPORTED(target) /\ detector

\* ALL_SIGNS.filter((s) => isDue(srs[s.id], today)).map((s) => s.id)
dueToday(a) ==
    SelectSeq(Signs, LAMBDA id : Truthy(isDue(objs[a.srs][id], Today)))

\* A slip: the handler works on the state object itself.
ShallowCopy_Alias(os, addr) == [objs |-> os, addr |-> addr]

\* { ...srs }: a new object with the entries of the object at addr.
ShallowCopy(os, addr) ==
    LET free == CHOOSE n \in 1..(Cardinality(DOMAIN os) + 1) :
                    /\ n \notin DOMAIN os
                    /\ \A m \in 1..(n - 1) : m \in DOMAIN os
    IN  [objs |-> os @@ (free :> os[addr]), addr |-> free]

\* schedule(srs, id, success) on the object at addr, with the default date.
scheduleIn(os, addr, id, success) ==
    [os EXCEPT ![addr][id] = Some(scheduleSim(os[addr][id], success, Today, tz))]

\* const copy = { ...srs }; schedule(copy, id, success); setSrs(copy), by a
\* handler with closure cl.
Scheduled(cl, id, success) ==
    LET c == ShallowCopy(objs, cl.srs)
    IN  [app |-> [app EXCEPT !.srs = c.addr],
         objs |-> scheduleIn(c.objs, c.addr, id, success)]

\* Nothing was set.
NoChange == [app |-> app, objs |-> objs]

\* handlePracticeResult(success) of the render with closure cl.
handlePracticeResult(cl, success) ==
    IF ~IsPresent(cl.current) THEN NoChange
    ELSE LET idx == IndexOf(cl.practiceQueue, Get(cl.current))
             more == idx + 2 <= Len(cl.practiceQueue)
         IN  [Scheduled(cl, Get(cl.current), success)
                 EXCEPT !.app.current = IF more THEN Some(cl.practiceQueue[idx + 2])
                                        ELSE Absent,
                        !.app.mode = IF more THEN @ ELSE "home",
                        !.app.practiceQueue = IF more THEN @ ELSE <<>>]

\* A slip: a failed result in free practice is scheduled as a failure.
onResult_FreeFailure(cl, ok) ==
    IF cl.mode = "free"
    THEN Scheduled(cl, Get(cl.current), ok)
    ELSE handlePracticeResult(cl, ok)

\* The onResult prop App passes to PracticeView.
onResult(cl, ok) ==
    IF cl.mode = "free"
    THEN IF ok THEN Scheduled(cl, Get(cl.current), TRUE) ELSE NoChange
    ELSE handlePracticeResult(cl, ok)

\* onClick of the panel's Mark Correct / Mark Again.
PanelMark(cl, success) ==
    IF cl.mode = "practice" THEN handlePracticeResult(cl, success) ELSE NoChange

\* What useHandsDetector returns of its state.
HookState(h) == [detector |-> h.detector, ready |-> h.ready, err |-> h.err]

\* The loop effect's cleanup leaves a frame that awaits estimateHands to
\* itself: it keeps the target, detector and onResult of its render.  cell 0
\* is the stable counter of the mounted view.
FrameInFlight(v, cl) ==
    [target |-> v.target, detector |-> v.detector, onResult |-> cl, cell |-> 0]

\* PracticeView unmounts: the frames in flight that share its stable counter
\* keep it alive as a cell of their own.
Orphaned(frames, cells, counter) ==
    IF \E i \in 1..Len(frames) : frames[i].cell = 0
    THEN [frames |-> [i \in 1..Len(frames) |->
                        IF frames[i].cell = 0
                        THEN [frames[i] EXCEPT !.cell = Len(cells) + 1]
                        ELSE frames[i]],
          cells |-> Append(cells, counter)]
    ELSE [frames |-> frames, cells |-> cells]

\* React renders App with state a2 and hook state h2: PracticeView is mounted,
\* updated or unmounted, its effect on target resets the stable counter, and
\* its loop effect, whose dependencies include the new onResult, is cleaned up
\* and run again.  v and p are the view and the pending callbacks so far.
Rendered(a2, h2, v, p) ==
    LET frames1 == IF v.loop = "inflight"
                   THEN Append(p.frames, FrameInFlight(v, Closure(app)))
                   ELSE p.frames
    IN  IF a2 = app /\ HookState(h2) = HookState(hook)
        THEN [view |-> v, pending |-> p]
        ELSE IF ~PracticeViewShown(a2, h2)
        THEN LET o == Orphaned(frames1, p.cells, v.stableCounter)
             IN  [view |-> NoView,
                  pending |-> [p EXCEPT !.frames = o.frames, !.cells = o.cells]]
        ELSE [view |-> [mounted |-> TRUE,
                        target |-> Get(a2.current),
                        detector |-> detectorReady(h2),
                        stableCounter |->
                            IF v.mounted /\ v.target = Get(a2.current)
                            THEN v.stableCounter ELSE 0,
                        loop |-> "idle"],
              pending |-> [p EXCEPT !.frames = frames1]]

\* The srs objects still referred to: by App's state, by a handler held by a
\* timer or a frame in flight, or by the last event.
Live(os, a, p, l) ==
    LET roots == {a.srs, l.cl.srs, l.app.srs}
                 \cup { p.timers[i].srs : i \in 1..Len(p.timers) }
                 \cup { p.frames[i].onResult.srs : i \in 1..Len(p.frames) }
    IN  [x \in DOMAIN os \cap roots |-> os[x]]

\* The frames counted for the next report start anew when the stable counter
\* is reset.
Recount(hi, v2) ==
    IF v2.stableCounter = 0 /\ (~v2.mounted \/ ~view.mounted \/ v2.target # view.target)
    THEN [hi EXCEPT !.net = 0, !.missed = 0]
    ELSE hi

\* An event handler or callback has run: r is what it set of App's state, h2
\* the hook's state, v and p the view and pending callbacks it left, hi the
\* history.  The effect on [srs] saves a new srs object.
Commit(r, h2, v, p, hi) ==
    /\ \E set \in {r}, h \in {hi} :
          /\ app' = set.app
          /\ saved' = IF set.app.srs # app.srs THEN Some(set.objs[set.app.srs])
                      ELSE saved
          /\ hook' = h2
          /\ \E n \in {Rendered(set.app, h2, v, p)} :
                /\ view' = n.view
                /\ pending' = n.pending
                /\ hist' = Recount(h, n.view)
                /\ objs' = Live(set.objs, set.app, n.pending, h.last)
    /\ UNCHANGED <<tz, item, call, run, steps, recog, heap, sims, env>>

\* The history after an event that grades nothing and reads no schedule.
Note(op, sign, ok) ==
    [hist EXCEPT !.last = [NoEvent EXCEPT !.op = op, !.sign = sign, !.ok = ok]]

\* The history after a handler that may grade has run: what it was, and the
\* state it acted on.
Event(op, sign, ok, cl) ==
    [hist EXCEPT !.last = [op |-> op, sign |-> sign, ok |-> ok, cl |-> cl,
                           by |-> "user", app |-> app, read |-> objs[cl.srs],
                           state |-> objs[app.srs], saved |-> saved,
                           net |-> 0, effect |-> {}]]

\* The history after an event that called schedule().
Counted(hi) == [hi EXCEPT !.reviews = @ + 1]

\* A result was passed to handlePracticeResult.
SessionResult(hi) ==
    [hi EXCEPT !.graded = Append(@, hi.last.sign),
               !.session = IF IsPresent(@)
                           THEN Some([Get(@) EXCEPT !.results = @ + 1])
                           ELSE @]

\* Whether the model may follow one more schedule() call.
MayReview == hist.reviews < env.maxReviews

\* Start Review is pressed on the home screen; the button is disabled when
\* nothing is due, and handleStartPractice returns early in that case.
handleStartPractice ==
    /\ app.mode = "home"
    /\ LET q == SubSeq(dueToday(app), 1, Min(QueueCap, Len(dueToday(app))))
           hi == Event("startReview", "", FALSE, Closure(app))
       IN  IF Len(q) = 0
           THEN Commit(NoChange, hook, view, pending, hi)
           ELSE Commit([NoChange EXCEPT !.app.practiceQueue = q,
                                        !.app.current = Some(q[1]),
                                        !.app.mode = "practice"],
                       hook, view, pending,
                       [hi EXCEPT !.session = Some([queue |-> q, results |-> 0]),
                                  !.graded = <<>>])

\* Practice on a sign card: handleFreePractice(sign).
handleFreePractice(sign) ==
    /\ app.mode = "home"
    /\ Commit([NoChange EXCEPT !.app.current = Some(sign), !.app.mode = "free"],
              hook, view, pending,
              [Note("freePractice", sign, FALSE)
                  EXCEPT !.session = Absent])

\* Mark Known on a sign card.
MarkKnown(sign) ==
    /\ app.mode = "home"
    /\ MayReview
    /\ Commit(Scheduled(Closure(app), sign, TRUE), hook, view, pending,
              Counted(Event("markKnown", sign, TRUE, Closure(app))))

\* Exit on the practice screen.
Exit ==
    /\ Practising(app)
    /\ Commit([NoChange EXCEPT !.app.mode = "home", !.app.current = Absent],
              hook, view, pending,
              [Note("exit", "", FALSE) EXCEPT !.session = Absent])

\* Done on the practice screen, shown in free practice.
Done ==
    /\ Practising(app)
    /\ app.mode = "free"
    /\ Commit([NoChange EXCEPT !.app.mode = "home"], hook, view, pending,
              [Note("done", "", FALSE) EXCEPT !.session = Absent])

\* Mark Correct / Mark Again of the "Did it register?" panel.
PanelButton(success) ==
    /\ PracticeViewShown(app, hook)
    /\ app.mode = "practice" => MayReview
    /\ LET hi == Event(IF app.mode = "practice" THEN "handlePracticeResult"
                        ELSE "panel", Get(app.current), success, Closure(app))
       IN  Commit(PanelMark(Closure(app), success), hook, view, pending,
                  IF app.mode = "practice"
                  THEN SessionResult(Counted(hi))
                  ELSE hi)

\* Mark Correct / Mark Again of PracticeView, shown when !canAI.
ViewButton(ok) ==
    /\ view.mounted
    /\ ~canAI(view.target, view.detector)
    /\ (app.mode = "practice" \/ ok) => MayReview
    /\ LET hi == Event(IF app.mode = "practice" THEN "handlePracticeResult"
                        ELSE "onResult", view.target, ok, Closure(app))
       IN  Commit(onResult(Closure(app), ok), hook, view, pending,
                  IF app.mode = "practice"
                  THEN SessionResult(Counted(hi))
                  ELSE IF ok THEN Counted(hi) ELSE hi)

\* The 6 s timer App sets on mount fires: setAiTimeout(true).
AiTimeout ==
    /\ ~app.aiTimeout
    /\ Commit([NoChange EXCEPT !.app.aiTimeout = TRUE], hook, view, pending,
              Note("aiTimeout", "", FALSE))

\* init(): getUserMedia resolves.  videoRef.current is the <video> element
\* PracticeView renders, so it is null unless PracticeView is mounted; play()
\* never rejects, and the navigator.onLine test follows it.
StreamResolves ==
    /\ hook.pc = "stream"
    /\ env.camera = "granted"
    /\ Commit(NoChange,
              IF ~view.mounted THEN [hook EXCEPT !.pc = "done"]
              ELSE IF env.library = "offline"
              THEN [hook EXCEPT !.pc = "done", !.ready = TRUE,
                                !.err = "Network unavailable for hand detector"]
              ELSE [hook EXCEPT !.pc = "create"],
              view, pending, Note("stream", "", view.mounted))

\* init(): getUserMedia rejects; the catch block sets err and ready.
StreamRejects ==
    /\ hook.pc = "stream"
    /\ env.camera = "denied"
    /\ Commit(NoChange,
              [hook EXCEPT !.pc = "done", !.ready = TRUE, !.err = "Permission denied"],
              view, pending, Note("stream", "", FALSE))

\* init(): createDetector resolves: setDetector(d); setReady(true).
DetectorCreated ==
    /\ hook.pc = "create"
    /\ env.library = "ok"
    /\ Commit(NoChange,
              [hook EXCEPT !.pc = "done", !.detector = TRUE, !.ready = TRUE],
              view, pending, Note("detector", "", TRUE))

\* init(): createDetector rejects; the catch block sets err and ready.
DetectorFails ==
    /\ hook.pc = "create"
    /\ env.library = "fails"
    /\ Commit(NoChange,
              [hook EXCEPT !.pc = "done", !.ready = TRUE, !.err = "Unknown error"],
              view, pending, Note("detector", "", FALSE))

\* What estimateHands resolves to: two hands signing Help, or no hand.  A
\* frame is named by its index in this list.
ViewFrames ==
    << Some(<< HandAt(ShapeFist, 6, 12), HandAt(ShapePalm, 6, 14) >>), Some(<<>>) >>

\* The loop's test recognized && recognized.label === target &&
\* recognized.confidence > 0.8 on a frame.
Matches(target, frame) == <<target, frame>> \in env.accepted

\* The loop's animation frame callback up to await detector.estimateHands().
\* Without a detector the callback only draws and requests the next frame.
FrameStart ==
    /\ view.mounted
    /\ view.loop = "idle"
    /\ view.detector
    /\ MayReview
    /\ Len(pending.frames) < MaxPending
    /\ Len(pending.timers) < MaxPending
    /\ view' = [view EXCEPT !.loop = "inflight"]
    /\ UNCHANGED <<tz, item, call, run, steps, recog, heap, sims,
                   env, app, hook, pending, objs, saved, hist>>

\* The stable counter after a frame: one more on a match, one less (not below
\* 0) otherwise; unchanged when the AI check is off.
NextCounter(counter, target, detector, frame) ==
    IF ~canAI(target, detector) THEN counter
    ELSE IF Matches(target, frame) THEN counter + 1
    ELSE Max(0, counter - 1)

\* canAI && stableCounter.current >= 8
Reports(counter, target, detector) ==
    canAI(target, detector) /\ counter >= StableFrames

\* The history after a frame was matched against target: net is the number
\* of matching frames less the number of non-matching ones.
FrameCounted(hi, target, detector, frame) ==
    IF ~canAI(target, detector) THEN hi
    ELSE IF Matches(target, frame)
    THEN [hi EXCEPT !.net = @ + 1, !.last.net = hi.net + 1]
    ELSE [hi EXCEPT !.net = @ - 1, !.last.net = hi.net - 1, !.missed = @ + 1]

\* The frames counted for the next report start anew after a report.
Reported(hi, reports) ==
    IF reports THEN [hi EXCEPT !.net = 0, !.missed = 0] ELSE hi

\* Whether the model may follow one more frame of this kind.
MayCount(target, detector, frame) ==
    (canAI(target, detector) /\ ~Matches(target, frame)) => hist.missed < MaxMissed

\* The rest of the running loop's callback, with the frame estimateHands
\* resolved to: the stable counter moves, and at 8 the loop stops and sets
\* the 350 ms timer for onResult(true); else it requests the next frame.
FrameEnd(frame) ==
    /\ view.mounted
    /\ view.loop = "inflight"
    /\ MayCount(view.target, view.detector, frame)
    /\ LET counter == NextCounter(view.stableCounter, view.target, view.detector, frame)
           reports == Reports(counter, view.target, view.detector)
           hi == Note(IF reports THEN "report" ELSE "frame", view.target, FALSE)
       IN  /\ view' = [view EXCEPT !.stableCounter = counter,
                                   !.loop = IF reports THEN "reported" ELSE "idle"]
           /\ pending' = IF reports
                         THEN [pending EXCEPT !.timers = Append(@, Closure(app))]
                         ELSE pending
           /\ hist' = Reported(FrameCounted(hi, view.target, view.detector, frame),
                               reports)
           /\ objs' = Live(objs, app, pending, hi.last)
    /\ UNCHANGED <<tz, item, call, run, steps, recog, heap, sims,
                   env, app, hook, saved>>

\* s without its i-th element.
Without(s, i) == SubSeq(s, 1, i - 1) \o SubSeq(s, i + 1, Len(s))

\* The cells still referred to by a frame, and the frames renumbered to them.
Collected(frames, cells) ==
    LET used == { frames[i].cell : i \in 1..Len(frames) } \ {0}
        rank(c) == Cardinality({ u \in used : u <= c })
        keep == SelectSeq([i \in 1..Len(cells) |-> i], LAMBDA c : c \in used)
    IN  [frames |-> [i \in 1..Len(frames) |->
                        IF frames[i].cell = 0 THEN frames[i]
                        ELSE [frames[i] EXCEPT !.cell = rank(@)]],
         cells |-> [i \in 1..Len(keep) |-> cells[keep[i]]]]

\* The rest of the callback of a loop that was cleaned up while it awaited
\* estimateHands: running is not tested after the await, so the frame moves
\* the stable counter its closure refers to and either sets the timer or
\* requests another animation frame (whose callback returns at once).
StaleFrameEffect(f, frame, counter) ==
    LET next == NextCounter(counter, f.target, f.detector, frame)
    IN  [counter |-> next,
         effect |-> (IF canAI(f.target, f.detector) THEN {"counter"} ELSE {})
                    \cup (IF Reports(next, f.target, f.detector)
                          THEN {"timer"} ELSE {"raf"})]

\* estimateHands resolves for the i-th frame of a loop already cleaned up.
StaleFrameEnd(i, frame) ==
    /\ i \in 1..Len(pending.frames)
    /\ pending.frames[i].cell = 0 =>
          MayCount(pending.frames[i].target, pending.frames[i].detector, frame)
    /\ LET f == pending.frames[i]
           live == f.cell = 0
           e == StaleFrameEffect(f, frame,
                    IF live THEN view.stableCounter ELSE pending.cells[f.cell])
           c == Collected(Without(pending.frames, i),
                          IF live THEN pending.cells
                          ELSE [pending.cells EXCEPT ![f.cell] = e.counter])
           hi == [Note("staleFrame", f.target, live)
                     EXCEPT !.last.effect = e.effect]
           p == [frames |-> c.frames, cells |-> c.cells,
                 timers |-> IF "timer" \in e.effect
                            THEN Append(pending.timers, f.onResult)
                            ELSE pending.timers]
       IN  /\ view' = IF live THEN [view EXCEPT !.stableCounter = e.counter]
                      ELSE view
           /\ pending' = p
           /\ hist' = IF live /\ "counter" \in e.effect
                      THEN Reported(FrameCounted(hi, f.target, f.detector, frame),
                                    "timer" \in e.effect)
                      ELSE hi
           /\ objs' = Live(objs, app, p, hi.last)
    /\ UNCHANGED <<tz, item, call, run, steps, recog, heap, sims,
                   env, app, hook, saved>>

\* The oldest 350 ms timer fires: the onResult of the render that set it is
\* called with true.  Nothing cancels the timer.
TimerFires ==
    /\ pending.timers # <<>>
    /\ LET cl == Head(pending.timers)
           hi == [Event(IF cl.mode = "free" THEN "onResult"
                        ELSE "handlePracticeResult", Get(cl.current), TRUE, cl)
                     EXCEPT !.last.by = "timer"]
       IN  /\ Commit(onResult(cl, TRUE), hook, view,
                     [pending EXCEPT !.timers = Tail(@)],
                     IF cl.mode = "practice"
                     THEN SessionResult(Counted(hi)) ELSE Counted(hi))

\* recognize() on each frame the camera may show, for each sign: the pairs
\* <<target, frame>> the loop's test accepts, frames by their index.
Accepted(signs) ==
    { p \in Range(signs) \X (1..Len(ViewFrames)) :
        Accepts(recognize(p[1], ViewFrames[p[2]]), p[1]) }

\* The app as opened at a given moment, in a given zone, with the given
\* storage, camera and detector library.
AppStarts(signs, raw, camera, library, maxReviews) ==
    /\ env = [now |-> Noon, today |-> todayISO(Noon, tz), signs |-> signs,
              camera |-> camera, library |-> library,
              accepted |-> Accepted(signs), maxReviews |-> maxReviews]
    /\ app = [mode |-> "home", current |-> Absent, practiceQueue |-> <<>>,
              srs |-> 1, aiTimeout |-> FALSE]
    /\ objs = (1 :> loadSrs(raw, signs, env.today))
    /\ saved = Some(objs[1])
    /\ hook = IF camera = "unavailable"
              THEN HookAt("done", "Camera API not available")
              ELSE HookAt("stream", "")
    /\ view = NoView
    /\ pending = NoPending
    /\ hist = NoHist

\* Review sessions and free practice on a device without a camera API: opened
\* for the first time in any zone, or with a stored schedule.
InitSession ==
    /\ item = Absent
    /\ call = <<>>
    /\ run = 0
    /\ steps = 0
    /\ recog = NoRecog
    /\ heap = <<>>
    /\ sims = NoSims
    /\ \E zone \in TZOffsets,
          raw \in { Absent } \cup { Some(m) : m \in StoredSrs(Vocabulary(MaxSigns)) } :
          /\ IsPresent(raw) => zone = 0
          /\ tz = zone
          /\ AppStarts(Vocabulary(MaxSigns), raw, "unavailable", "fails",
                       MaxReviews)

NextSession ==
    \/ handleStartPractice
    \/ \E sign \in SignIds : handleFreePractice(sign)
    \/ \E sign \in SignIds : MarkKnown(sign)
    \/ Exit
    \/ Done
    \/ \E success \in BOOLEAN : PanelButton(success)
    \/ \E ok \in BOOLEAN : ViewButton(ok)

SpecSession == InitSession /\ [][NextSession]_vars

\* A device with a camera: the permission prompt is answered either way, and
\* when access is granted the detector library loads, fails or is offline.
InitCamera(maxReviews) ==
    /\ tz = 0
    /\ item = Absent
    /\ call = <<>>
    /\ run = 0
    /\ steps = 0
    /\ recog = NoRecog
    /\ heap = <<>>
    /\ sims = NoSims
    /\ \E camera \in {"granted", "denied"}, library \in {"ok", "fails", "offline"} :
          /\ camera = "denied" => library = "ok"
          /\ AppStarts(Vocabulary(MaxViewSigns), Absent, camera, library,
                       maxReviews)

InitView == InitCamera(MaxViewReviews)

NextView ==
    \/ handleStartPractice
    \/ \E sign \in SignIds : handleFreePractice(sign)
    \/ \E sign \in SignIds : MarkKnown(sign)
    \/ Exit
    \/ Done
    \/ \E success \in BOOLEAN : PanelButton(success)
    \/ \E ok \in BOOLEAN : ViewButton(ok)
    \/ AiTimeout
    \/ StreamResolves
    \/ StreamRejects
    \/ DetectorCreated
    \/ DetectorFails
    \/ FrameStart
    \/ \E frame \in 1..Len(ViewFrames) : FrameEnd(frame)
    \/ \E i \in 1..MaxPending, frame \in 1..Len(ViewFrames) :
          StaleFrameEnd(i, frame)
    \/ TimerFires

SpecView == InitView /\ [][NextView]_vars

\* The way to manual practice: the screens, the manual controls, the 6 s timer
\* and the detector's initialisation, without the detection loop.
NextFallback ==
    \/ handleStartPractice
    \/ \E sign \in SignIds : handleFreePractice(sign)
    \/ \E sign \in SignIds : MarkKnown(sign)
    \/ Exit
    \/ Done
    \/ \E success \in BOOLEAN : PanelButton(success)
    \/ \E ok \in BOOLEAN : ViewButton(ok)
    \/ AiTimeout
    \/ StreamResolves
    \/ StreamRejects
    \/ DetectorCreated
    \/ DetectorFails

\* The 6 s timer fires; the camera prompt is answered and the detector library
\* settles.
InitFallback == InitCamera(MaxFallbackReviews)

SpecFallback ==
    /\ InitFallback
    /\ [][NextFallback]_vars
    /\ WF_vars(AiTimeout)
    /\ WF_vars(StreamResolves)
    /\ WF_vars(StreamRejects)
    /\ WF_vars(DetectorCreated)
    /\ WF_vars(DetectorFails)


----------------------------------------------------------------------------
(* Properties of the scheduler. *)

\* The last call was scheduleSim / isDue.
IsSim == IsPresent(call) /\ Get(call).op = "scheduleSim"

IsDueCall == IsPresent(call) /\ Get(call).op = "isDue"

\* The item the last scheduleSim call started from: the one passed, or the
\* documented defaults when none was passed.
OldItem ==
    IF IsPresent(Get(call).item) THEN Get(Get(call).item)
    ELSE [ease |-> 230, intervalDays |-> 0, due |-> Get(call).date, streak |-> 0]

Result == Get(call).result

\* The calendar date n days after the date s.
PlusDays(s, n) == ToISODate((DateParse(s) \div 1440 + n) * 1440)

\* The position of a date string in the calendar.
CalendarDay(s) == DateParse(s) \div 1440

\* C1: scheduleSim returns due = the calendar date exactly intervalDays days
\* after the reference date, for every item, outcome, date and host timezone.
C1_DueIsReferencePlusInterval ==
    IsSim => Result.due = PlusDays(Get(call).date, Result.intervalDays)

\* C2: on success streak = old + 1, ease = min(2.8, old + 0.08) and the interval
\* is 1 from 0, 3 from 1, else max(1, round(old interval * old ease)) with the
\* ease before its increment; from interval 3, ease 2.3: interval in [6,8] and
\* a larger ease.
C2_SuccessTransition ==
    (IsSim /\ Get(call).success) =>
        /\ Result.streak = OldItem.streak + 1
        /\ Result.ease = Min(280, OldItem.ease + 8)
        /\ Result.intervalDays =
             (IF OldItem.intervalDays = 0 THEN 1
              ELSE IF OldItem.intervalDays = 1 THEN 3
              ELSE Max(1, (OldItem.intervalDays * OldItem.ease + 50) \div 100))
        /\ (OldItem.intervalDays = 3 /\ OldItem.ease = 230) =>
             (Result.intervalDays \in 6..8 /\ Result.ease > 230)

\* A third success, from interval 3 and ease 2.3, has been applied.
C2_Witness ==
    /\ IsSim /\ Get(call).success
    /\ OldItem.intervalDays = 3 /\ OldItem.ease = 230
    /\ Result.intervalDays = 7 /\ Result.ease = 238

\* C3: on failure streak = 0, intervalDays = 1 and ease = max(1.3, old - 0.2),
\* whatever the old interval and streak were.
C3_FailureTransition ==
    (IsSim /\ ~Get(call).success) =>
        /\ Result.streak = 0
        /\ Result.intervalDays = 1
        /\ Result.ease = Max(130, OldItem.ease - 20)

\* A failure has been applied to an item with a long interval, a streak and
\* an ease that the floor of 1.3 catches.
C3_Witness ==
    /\ IsSim /\ ~Get(call).success
    /\ OldItem.intervalDays = 7 /\ OldItem.streak = 3 /\ OldItem.ease = 131
    /\ Result.ease = 130

\* C4 as stated: a failure never returns an ease above the ease passed in,
\* whatever that ease is.
C4_FailureNeverRaisesEase ==
    (IsSim /\ ~Get(call).success) => Result.ease <= OldItem.ease

\* C4 amended: a failure returns an ease <= the ease passed in whenever that
\* ease is at least 1.3; an ease below 1.3 is raised to 1.3.
C4_FailureEaseAmended ==
    (IsSim /\ ~Get(call).success) =>
        /\ OldItem.ease >= 130 => Result.ease <= OldItem.ease
        /\ OldItem.ease < 130 => Result.ease = 130

\* A failure has been applied to an item whose ease is above the valid range.
C4_Witness ==
    /\ IsSim /\ ~Get(call).success
    /\ OldItem.ease = 500 /\ Result.ease = 480

\* C5: from the default item, after any sequence of successes and failures the
\* ease is within [1.3, 2.8].
C5_EaseWithinBounds ==
    /\ IsPresent(item) => Get(item).ease \in 130..280
    /\ IsSim => Result.ease \in 130..280

\* Seven successes in a row from the default item: the cap of 2.8 has acted.
C5_Witness ==
    /\ IsSim /\ Get(call).success
    /\ run = 7 /\ OldItem.ease = 278 /\ Get(item).ease = 280

\* C6: one transition heals an item whose ease is outside [1.3, 2.8] or whose
\* interval is negative: the result has ease in [1.3, 2.8] and interval >= 1.
C6_OneReviewHeals ==
    (IsSim /\ (OldItem.ease \notin 130..280 \/ OldItem.intervalDays < 0)) =>
        (Result.ease \in 130..280 /\ Result.intervalDays >= 1)

\* C7: isDue is truthy exactly when the item exists and its due date is on or
\* before onDate in the calendar.
C7_IsDueIsCalendarOrder ==
    IsDueCall =>
        (Truthy(Result) <=>
            /\ IsPresent(Get(call).item)
            /\ CalendarDay(Get(Get(call).item).due) <= CalendarDay(Get(call).date))

\* isDue has been asked about an item on its very due date, and said yes.
C7_Witness ==
    /\ IsDueCall /\ IsPresent(Get(call).item)
    /\ Get(Get(call).item).due = Get(call).date
    /\ IsPresent(Get(call).item) /\ Get(Get(call).item).intervalDays > 0
    /\ Truthy(Result)

\* A ReviewItem of the data model: ease in [1.3, 2.8], interval >= 0.
ValidItem(it) == it.ease \in 130..280 /\ it.intervalDays >= 0

\* C8: successes in a row from a valid item never shrink the interval.
C8_SuccessesNeverShrinkInterval ==
    (IsSim /\ Get(call).success /\ ValidItem(OldItem)) =>
        /\ Result.intervalDays >= OldItem.intervalDays
        /\ ValidItem(Result)

\* Three successes in a row from a stored item with the smallest valid ease.
C8_Witness ==
    /\ IsSim /\ Get(call).success /\ ValidItem(OldItem)
    /\ run = 3 /\ steps = 3
    /\ OldItem.ease = 146 /\ OldItem.intervalDays > 3

\* C9: from the default item, streak is the number of successes in a row since
\* the last failure (or since creation), hence never negative.
C9_StreakCountsSuccessesInARow ==
    /\ IsPresent(item) => (Get(item).streak = run /\ Get(item).streak >= 0)
    /\ ~IsPresent(item) => run = 0

\* Two successes after a failure: the streak counts the two only.
C9_Witness ==
    /\ IsSim /\ run = 2
    /\ Get(item).streak = 2 /\ Get(item).ease = 226

----------------------------------------------------------------------------
(* Properties of the recognizers. *)

\* C10: recognize returns none for every target label other than exactly
\* "I Love You", "Stop", "More" or "Help", whatever the frame contains.
C10_UnknownLabelGivesNone ==
    (recog.called /\ recog.target \notin { "I Love You", "Stop", "More", "Help" })
        => recog.result = <<>>

\* recognize has been called with an unsupported label on a frame that the
\* "Help" recognizer matches.
C10_Witness ==
    /\ recog.called
    /\ recog.target = "Please"
    /\ recogHelp(recog.hands) # <<>>
    /\ recog.result = <<>>

\* A hand of the frame lacks landmarks: it is absent, has no keypoints list,
\* has fewer than 21 keypoints, or has a null keypoint.
Partial(hand) ==
    \/ ~IsPresent(hand)
    \/ ~IsPresent(Get(hand).keypoints)
    \/ Len(Keypoints(hand)) < 21
    \/ \E i \in DOMAIN Keypoints(hand) : ~IsPresent(Keypoints(hand)[i])

\* The hands of the frame recognize was called with (none for no frame).
CalledHands == IF IsPresent(recog.hands) THEN Get(recog.hands) ELSE <<>>

\* C11: recognize never raises: for every target and every frame that is
\* absent or a list of hands, in which a hand may be absent, may lack its
\* keypoints list, may have fewer than 21 keypoints or may hold null
\* keypoints, the call completes and returns none or a result object.
C11_RecognizeNeverRaises ==
    recog.called =>
        /\ ~recog.raised
        /\ \/ recog.result = <<>>
           \/ /\ Len(recog.result) = 1
              /\ DOMAIN recog.result[1] = { "label", "confidence" }

\* A supported recognizer has been run on a frame in which a hand has a null
\* landmark and another is cut short, and it returned.
C11_Witness ==
    /\ recog.called
    /\ recog.target = "Help"
    /\ Len(CalledHands) >= 2
    /\ \E i \in DOMAIN Keypoints(CalledHands[1]) :
          ~IsPresent(Keypoints(CalledHands[1])[i])
    /\ Len(Keypoints(CalledHands[1])) = 21
    /\ Len(Keypoints(CalledHands[2])) \in 1..20
    /\ ~recog.raised

\* C12: fewer hands than the sign needs give none: "I Love You" and "Stop"
\* return none when the frame is absent or has no hand; "More" and "Help"
\* return none when the frame is absent or has no or one hand.
C12_TooFewHandsGiveNone ==
    recog.called =>
        /\ (recog.target \in { "I Love You", "Stop" } /\ Len(CalledHands) < 1)
              => (~recog.raised /\ recog.result = <<>>)
        /\ (recog.target \in { "More", "Help" } /\ Len(CalledHands) < 2)
              => (~recog.raised /\ recog.result = <<>>)

\* "Help" has been asked of a single flat palm, which a missing second hand
\* would complete to a match, and none came back.
C12_Witness ==
    /\ recog.called
    /\ recog.target = "Help"
    /\ Len(CalledHands) = 1
    /\ isFlatPalm(CalledHands[1])
    /\ recogHelpPair(CalledHands[1], <<>>) # <<>>
    /\ recog.result = <<>>

\* The score of one hand for "I Love You", in hundredths: how many of the
\* five hold (thumb PIP angle over 160, index extended, middle curled, ring
\* curled, pinky extended), out of five.
ILYScore(hand) ==
    LET ang == fingerAngles(hand)
        thumbOK == IF Over160(ang.thumb.pip) THEN 1 ELSE 0
        indexOK == IF isExtended(ang.index.pip, ang.index.dip) THEN 1 ELSE 0
        middleCurled == IF isCurled(ang.middle.pip, ang.middle.dip) THEN 1 ELSE 0
        ringCurled == IF isCurled(ang.ring.pip, ang.ring.dip) THEN 1 ELSE 0
        pinkyOK == IF isExtended(ang.pinky.pip, ang.pinky.dip) THEN 1 ELSE 0
    IN  ((thumbOK + indexOK + middleCurled + ringCurled + pinkyOK) * 100) \div 5

\* C13: recognize("I Love You") scores each hand by itself and returns the
\* label with that score for the first hand, in frame order, whose score is
\* strictly above 0.8; it returns none when no hand scores above 0.8.
C13_ILYFirstHandAboveThreshold ==
    (recog.called /\ recog.target = "I Love You") =>
        LET hits == { i \in 1..Len(CalledHands) : ILYScore(CalledHands[i]) > 80 }
        IN  /\ ~recog.raised
            /\ hits = {} => recog.result = <<>>
            /\ hits # {} =>
                  LET first == CHOOSE i \in hits : \A j \in hits : i <= j
                  IN  recog.result =
                        << [label |-> "I Love You",
                            confidence |-> ILYScore(CalledHands[first])] >>

\* The first hand scores exactly 0.8 and is passed over, a later hand scores
\* above it and is returned.
C13_Witness ==
    /\ recog.called
    /\ recog.target = "I Love You"
    /\ Len(CalledHands) >= 2
    /\ ILYScore(CalledHands[1]) = 80
    /\ \E i \in 2..Len(CalledHands) : ILYScore(CalledHands[i]) > 80
    /\ recog.result # <<>>

\* The score of one hand for "Stop", in hundredths: how many of index,
\* middle, ring and pinky are extended, out of four.
StopScore(hand) == (ExtendedCount(hand) * 100) \div 4

\* C14: recognize("Stop") examines only the first hand of the frame: its
\* confidence is the number of extended fingers among index, middle, ring and
\* pinky divided by 4, and the label is returned with that confidence if and
\* only if it is above 0.85; the other hands never change the result.
C14_StopLooksAtFirstHandOnly ==
    (recog.called /\ recog.target = "Stop" /\ Len(CalledHands) >= 1) =>
        LET confidence == StopScore(CalledHands[1])
        IN  /\ ~recog.raised
            /\ recog.result =
                  IF confidence > 85
                  THEN << [label |-> "Stop", confidence |-> confidence] >>
                  ELSE <<>>
            /\ recog.result = recognize("Stop", Some(<< CalledHands[1] >>))

\* The first hand has three of its four fingers extended, a later hand has all
\* four, and none came back.
C14_Witness ==
    /\ recog.called
    /\ recog.target = "Stop"
    /\ Len(CalledHands) >= 2
    /\ StopScore(CalledHands[1]) = 75
    /\ StopScore(CalledHands[2]) = 100
    /\ recog.result = <<>>

\* The thumb tip and the index tip of the hand are both present.
TipsPresent(hand) ==
    IsPresent(At(Keypoints(hand), 4)) /\ IsPresent(At(Keypoints(hand), 8))

TipDistance(hand) == dist(At(Keypoints(hand), 4), At(Keypoints(hand), 8))

CentreDistance(h1, h2) == dist(Some(handCenter(h1)), Some(handCenter(h2)))

\* distance / size < ratio (in hundredths): no quotient is below anything
\* when the size is 0.
QuotientBelow(distance, size, ratio) ==
    size > 0 /\ distance * 100 < ratio * size

\* What "More" is stated to return for the first two hands, with or without
\* 1 taking the place of a palm size of 0.
MoreAsStated(h1, h2, zeroIsOne) ==
    LET Size(v) == IF zeroIsOne /\ v = 0 THEN OnePixel ELSE v
        OShape(h) == /\ TipsPresent(h)
                     /\ QuotientBelow(TipDistance(h), Size(palmSize(h)), 35)
        \* d / ((p1 + p2) / 2) = 2 d / (p1 + p2), and 1 for a mean of 0 is
        \* 2 for a sum of 0
        close == QuotientBelow(2 * CentreDistance(h1, h2),
                               IF zeroIsOne /\ palmSize(h1) + palmSize(h2) = 0
                               THEN 2 * OnePixel
                               ELSE palmSize(h1) + palmSize(h2), 120)
    IN  IF OShape(h1) /\ OShape(h2) /\ close
        THEN << [label |-> "More", confidence |-> 90] >>
        ELSE <<>>

\* C15: recognize("More") returns the label with confidence 0.9 if and only
\* if both of the first two hands are O-shapes (thumb tip and index tip
\* present, their distance divided by the hand's palm size below 0.35) and
\* the distance of the two centres divided by the mean palm size is below
\* 1.2; otherwise none.  Hands after the second are ignored.
C15_MoreIffTwoCloseOShapes ==
    (recog.called /\ recog.target = "More" /\ Len(CalledHands) >= 2) =>
        /\ ~recog.raised
        /\ recog.result = MoreAsStated(CalledHands[1], CalledHands[2], FALSE)

\* C15, amended: as C15, a palm size of 0, and a mean palm size of 0, being
\* replaced by 1 before the division.
C15_MoreWithZeroPalmAsOne ==
    (recog.called /\ recog.target = "More" /\ Len(CalledHands) >= 2) =>
        /\ ~recog.raised
        /\ recog.result = MoreAsStated(CalledHands[1], CalledHands[2], TRUE)

\* Two close O-shapes and a third hand: "More" is returned.
C15_Witness ==
    /\ recog.called
    /\ recog.target = "More"
    /\ Len(CalledHands) = 3
    /\ palmSize(CalledHands[1]) > 0
    /\ palmSize(CalledHands[2]) > 0
    /\ CalledHands[1] # CalledHands[2]
    /\ recog.result = << [label |-> "More", confidence |-> 90] >>

\* The fist f and the flat palm p are close on both axes (less than 1.2 mean
\* palm sizes apart) and the fist's centre is strictly above the palm's.
FistAbovePalm(f, p) ==
    LET fC == handCenter(f)
        pC == handCenter(p)
    IN  /\ isFist(f)
        /\ isFlatPalm(p)
        /\ Abs(fC.x - pC.x) * 20 < 12 * TwicePs(f, p)
        /\ Abs(fC.y - pC.y) * 20 < 12 * TwicePs(f, p)
        /\ fC.y < pC.y

\* C16: recognize("Help") returns the label with confidence 0.85 if and only
\* if one of the first two hands is a fist and the other a flat palm, their
\* centres less than 1.2 mean palm sizes apart on both axes and the fist's
\* centre strictly above (smaller y than) the palm's; the verdict is the same
\* whichever of the two hands comes first.
C16_HelpIffFistStrictlyAbovePalm ==
    (recog.called /\ recog.target = "Help" /\ Len(CalledHands) >= 2) =>
        LET a == CalledHands[1]
            b == CalledHands[2]
        IN  /\ recog.result =
                  IF FistAbovePalm(a, b) \/ FistAbovePalm(b, a)
                  THEN << [label |-> "Help", confidence |-> 85] >>
                  ELSE <<>>
            /\ recog.result = recognize("Help", Some(<< b, a >>))

\* The hand has no usable landmarks: it is absent, or its keypoints list is
\* missing, empty or all null.
NoLandmarks(hand) ==
    \A i \in DOMAIN Keypoints(hand) : ~IsPresent(Keypoints(hand)[i])

\* C17: missing landmark data yields no match: when a hand the classifier
\* examines has no usable landmarks, recognize returns none, whatever the
\* other hands look like.  (Examined: the first hand for "Stop", the first
\* two for "More" and "Help"; for "I Love You" the statement is taken for
\* frames in which no hand has landmarks.)
C17_NoLandmarksGiveNone ==
    recog.called =>
        LET n == Len(CalledHands)
            examined ==
                IF recog.target = "Stop" THEN 1..Min(1, n)
                ELSE IF recog.target \in { "More", "Help" } THEN 1..Min(2, n)
                ELSE IF /\ recog.target = "I Love You"
                        /\ \A i \in 1..n : NoLandmarks(CalledHands[i])
                THEN 1..n
                ELSE {}
        IN  (\E i \in examined : NoLandmarks(CalledHands[i]))
                => recog.result = <<>>

\* The frame with its hands rearranged by the permutation p of 1..Len(hands).
Permuted(hands, p) == Some([i \in 1..Len(hands) |-> hands[p[i]]])

\* C18: for "I Love You" and "Stop" only the number and the content of the
\* hands matter, not their order: recognize returns the same result on every
\* permutation of the frame's hands.
C18_OrderOfHandsIsIrrelevant ==
    (recog.called /\ recog.target \in { "I Love You", "Stop" }) =>
        \A p \in Permutations(1..Len(CalledHands)) :
            recognize(recog.target, Permuted(CalledHands, p)) = recog.result

\* C18, amended: for "I Love You" the result is the same on every
\* permutation of the hands; for "Stop" it is the same on every permutation
\* that leaves the first hand in place.
C18_OrderBeyondStopsFirstHand ==
    (recog.called /\ recog.target \in { "I Love You", "Stop" }) =>
        \A p \in Permutations(1..Len(CalledHands)) :
            (recog.target = "Stop" => (Len(CalledHands) = 0 \/ p[1] = 1))
                => recognize(recog.target, Permuted(CalledHands, p)) = recog.result

\* "I Love You" has matched on a hand that is not the first of three different
\* hands, the first of which does not match.
C18_Witness ==
    /\ recog.called
    /\ recog.target = "I Love You"
    /\ Len(CalledHands) = 3
    /\ Cardinality({ CalledHands[i] : i \in 1..3 }) = 3
    /\ recogILY(Some(<< CalledHands[1] >>)) = <<>>
    /\ recog.result # <<>>

\* C19: every result that is not none carries the requested target as its
\* label and a confidence in [0, 1]; that confidence is above 0.8, so that
\* PracticeView's acceptance test accepts every match.
C19_EveryMatchIsAccepted ==
    (recog.called /\ recog.result # <<>>) =>
        /\ Get(recog.result).label = recog.target
        /\ Get(recog.result).confidence \in 0..100
        /\ Get(recog.result).confidence > 80
        /\ Accepts(recog.result, recog.target)

\* "Help" has returned its match, the one with the lowest confidence of the
\* four recognizers.
C19_Witness ==
    /\ recog.called
    /\ recog.target = "Help"
    /\ recog.result # <<>>
    /\ Get(recog.result).confidence = 85

----------------------------------------------------------------------------
(* Properties of scheduleSim as a function called by several callers. *)

\* The callers whose call has returned.
Returned == { c \in Callers : sims[c].pc = "done" }

\* C20: scheduleSim is pure with respect to its arguments: the item passed in
\* is never modified, and the record returned is newly allocated, so that
\* each of several callers whose calls on the same item interleave gets the
\* result it would get if it ran alone.
C20_ScheduleSimIsPure ==
    /\ IsPresent(item) => heap[1] = Get(item)
    /\ \A c \in Returned :
          /\ heap[sims[c].result] =
                scheduleSim(item, sims[c].success, sims[c].date, tz)
          /\ sims[c].result # sims[c].base
          /\ \A d \in Callers \ { c } :
                sims[c].result \notin { sims[d].base, sims[d].result }

\* Two callers have gone through the same item with different outcomes, the
\* second reading it after the first had returned, and both have returned.
C20_Witness ==
    /\ IsPresent(item)
    /\ \E c \in Returned, d \in Returned :
          /\ sims[c].success
          /\ ~sims[d].success
          /\ sims[c].base = sims[d].base
          /\ sims[c].result < sims[d].result
          /\ heap[sims[c].result] # heap[sims[d].result]
          /\ heap[sims[c].result] # Get(item)

----------------------------------------------------------------------------
(* Properties of the app: App.jsx, PracticeView.jsx, useHandsDetector.js.    *)

\* The last event called schedule(copy, sign, ok), copy being a shallow copy
\* of the srs its handler read.
ScheduleCalled ==
    \/ hist.last.op = "markKnown"
    \/ hist.last.op = "handlePracticeResult" /\ IsPresent(hist.last.cl.current)
    \/ hist.last.op = "onResult" /\ hist.last.ok

\* The srs object the last event's handler read, as it was before the event,
\* and the srs state object before the event.
SrsRead == hist.last.read
SrsStateBefore == hist.last.state

\* The srs state object now.
SrsState == objs[app.srs]

\* A sign is being practised and the detector's initialisation has reported an
\* error, or 6 s have passed without a ready detector.
FallbackDue ==
    /\ Practising(app)
    /\ hook.err # "" \/ (app.aiTimeout /\ ~detectorReady(hook))

\* PracticeView is on screen with detector = null and shows its Mark Correct
\* and Mark Again buttons.
ManualPractice ==
    /\ view.mounted
    /\ ~view.detector
    /\ ~canAI(view.target, view.detector)

\* C21: the app falls back to manual practice if AI fails: whenever a sign is
\* being practised and the detector's initialisation has reported an error or
\* 6 s have passed since mount without a ready detector, PracticeView is shown
\* with detector = null and its Mark Correct / Mark Again buttons; the loading
\* card never stays for ever.
C21_FallsBackToManualPractice ==
    /\ [](FallbackDue => ManualPractice)
    /\ LoadingCardShown(app, hook) ~> ~LoadingCardShown(app, hook)

\* The 6 s timer fired while the loading card was shown for a sign the AI
\* supports, and manual practice took its place.
C21_Witness ==
    /\ hist.last.op = "aiTimeout"
    /\ FallbackDue
    /\ ManualPractice
    /\ AI_SUPPORTED(Get(app.current))
    /\ hook.err = ""

\* A Mark Correct control is on screen whose handler grades the sign:
\* PracticeView's button (shown when !canAI) in either mode, the panel's
\* button in practice mode.
MarkCorrectGrades ==
    /\ view.mounted
    /\ ~canAI(view.target, view.detector) \/ app.mode = "practice"

\* C22: manual grading is available for all signs: in every state in which a
\* sign is being practised (mode practice or free, AI-supported or not, with or
\* without a ready detector) there is a Mark Correct control whose activation
\* applies a success transition to that sign's schedule entry.
C22_MarkCorrectAlwaysAvailable == Practising(app) => MarkCorrectGrades

\* C23: schedule(srs, id, success) overwrites srs[id] with scheduleSim(old
\* srs[id], success, date) and persists the mapping; every other sign's entry
\* is unchanged and no entry is removed; in App the previous srs state object
\* is not modified, because the transition is applied to a shallow copy.
C23_ScheduleOverwritesOneEntry ==
    ScheduleCalled =>
        /\ SrsState[hist.last.sign] =
               Some(scheduleSim(SrsRead[hist.last.sign], hist.last.ok, Today, tz))
        /\ saved = Some(SrsState)
        /\ DOMAIN SrsState = DOMAIN SrsRead
        /\ \A k \in DOMAIN SrsRead \ {hist.last.sign} : SrsState[k] = SrsRead[k]
        /\ app.srs # hist.last.app.srs
        /\ objs[hist.last.app.srs] = SrsStateBefore
        /\ objs[hist.last.cl.srs] = SrsRead

\* A failure was scheduled for a sign that had an entry, next to other entries.
C23_Witness ==
    /\ ScheduleCalled
    /\ hist.last.op = "handlePracticeResult"
    /\ ~hist.last.ok
    /\ IsPresent(SrsRead[hist.last.sign])
    /\ SrsState[hist.last.sign] # SrsRead[hist.last.sign]
    /\ \E k \in DOMAIN SrsRead \ {hist.last.sign} : IsPresent(SrsState[k])

\* C24: Start Review with k >= 1 signs due takes the first min(k, 8) due signs
\* in vocabulary order as the queue and presents the first; each result passed
\* to handlePracticeResult applies one transition to the current sign and
\* advances; after as many results as the queue is long the app is in mode
\* home with an empty queue and no current sign.  With nothing due, Start
\* Review does not enter practice mode.
C24_ReviewSession ==
    /\ hist.last.op = "startReview" =>
          LET due == dueToday(hist.last.app)
          IN  IF Len(due) = 0 THEN app = hist.last.app /\ app.mode = "home"
              ELSE /\ app.mode = "practice"
                   /\ app.practiceQueue = SubSeq(due, 1, Min(Len(due), QueueCap))
                   /\ app.current = Some(due[1])
    /\ hist.last.op = "handlePracticeResult" =>
          /\ hist.last.app.current = Some(hist.last.sign)
          /\ SrsState[hist.last.sign] =
                 Some(scheduleSim(SrsStateBefore[hist.last.sign], hist.last.ok,
                                  Today, tz))
    /\ IsPresent(hist.session) =>
          LET q == Get(hist.session).queue
              n == Get(hist.session).results
          IN  IF n < Len(q)
              THEN /\ app.mode = "practice"
                   /\ app.practiceQueue = q
                   /\ app.current = Some(q[n + 1])
              ELSE /\ app.mode = "home"
                   /\ app.practiceQueue = <<>>
                   /\ app.current = Absent

\* C25: a sign just reviewed is no longer due that day: after schedule(srs,
\* id, success) with the default reference date, for success and failure alike
\* and in every host timezone, isDue(srs[id], today) is false.
C25_ReviewedSignIsNotDueToday ==
    ScheduleCalled => ~Truthy(isDue(SrsState[hist.last.sign], Today))

\* C26: PracticeView's stable counter never leaves 0..8, and every report of
\* the recognizer (the loop setting the timer for onResult(true)) is preceded,
\* since the previous report or the last change of target, by matching frames
\* outnumbering the non-matching ones by at least 8; in practice and in free
\* mode.
C26_StableCounterWithinRange ==
    /\ view.stableCounter \in 0..StableFrames
    /\ hist.last.op = "report" => hist.last.net >= StableFrames

\* C27: in practice mode each presentation of a sign leads to exactly one
\* call of schedule for that sign: a report of the recognizer and a manual
\* press are not both applied to one presentation, and a later result never
\* overwrites the outcome of an earlier one with a value computed from a stale
\* copy of srs.
C27_OneScheduleCallPerPresentation ==
    /\ \A i, j \in 1..Len(hist.graded) :
          i # j => hist.graded[i] # hist.graded[j]
    /\ (hist.last.op = "handlePracticeResult" /\ ScheduleCalled) =>
          hist.last.cl.srs = hist.last.app.srs

\* C28: once PracticeView's detection loop has been cleaned up, a frame of it
\* whose estimateHands call was in flight has no further effect: it does not
\* update the stable counter, does not set the timer for onResult, and does
\* not request another animation frame.
C28_CleanedUpLoopHasNoEffect ==
    hist.last.op = "staleFrame" => hist.last.effect = {}

\* C29: if camera access is granted and the detector can be created,
\* useHandsDetector eventually sets detector and ready, wherever the user is
\* when the camera stream resolves.
C29_DetectorEventuallyReady ==
    (env.camera = "granted" /\ env.library = "ok") ~> detectorReady(hook)

====
